---------------------------- MODULE Spec2Model ----------------------------
(***************************************************************************)
(* Verification model of the hubertmis/modbus library: the PDU codec       *)
(* (src/src/pdu), the RTU and TCP framers (src/src/transport/*/frame.rs)   *)
(* and the transport facade (src/src/transport/mod.rs, */conn.rs).         *)
(*                                                                         *)
(* Bytes are integers 0..255, buffers are sequences of bytes.  A Rust      *)
(* Result is a record [kind, err, val]: kind is "Ok", "Err" or "Panic".    *)
(***************************************************************************)
EXTENDS Integers, Sequences, FiniteSets, TLC

\* ------------------------------------------------------------------ bounds
\* Longest byte stream a peer puts on a TCP connection in one exchange.
MaxStream == 12
\* Frames a session of the transport builds with tcp Frame::new.
MaxFrames == 1
\* Frames the threads build after the transaction id counter has wrapped.
MaxWrapped == 2

\* --------------------------------------------------------- program constants
BROADCAST_DST == 0
BROADCAST_UNIT_ID == 0
MODBUS_ID == 0
MIN_QUANTITY == 1
MAX_QUANTITY == 125
DSCR_PER_BYTE == 8

\* ------------------------------------------------------------------ results
Ok(v) == [kind |-> "Ok", err |-> "", val |-> v]
Err(e) == [kind |-> "Err", err |-> e, val |-> <<>>]
ExcErr(x) == [kind |-> "Err", err |-> "ExceptionResponse", val |-> <<x>>]
Panic(why) == [kind |-> "Panic", err |-> why, val |-> <<>>]
NoResult == [kind |-> "None", err |-> "", val |-> <<>>]
IsOk(r) == r.kind = "Ok"

\* ------------------------------------------------------------ byte helpers
U16 == 65536
\* u16::to_be_bytes
ToBe(v) == <<v \div 256, v % 256>>
\* u16::to_le_bytes
ToLe(v) == <<v % 256, v \div 256>>
\* u16::from_be_bytes(data[i..=i+1])
FromBe(d, i) == d[i] * 256 + d[i + 1]
\* u16::from_le_bytes(data[i..=i+1])
FromLe(d, i) == d[i] + d[i + 1] * 256

RECURSIVE BitXor(_, _, _)
\* a ^ b on n-bit unsigned integers
BitXor(a, b, n) ==
    IF n = 0 THEN 0
    ELSE (((a % 2) + (b % 2)) % 2) + 2 * BitXor(a \div 2, b \div 2, n - 1)

RECURSIVE BitAnd(_, _, _)
\* a & b on n-bit unsigned integers
BitAnd(a, b, n) ==
    IF n = 0 THEN 0
    ELSE ((a % 2) * (b % 2)) + 2 * BitAnd(a \div 2, b \div 2, n - 1)

\* ------------------------------------------------------------- CRC16/MODBUS
\* v with bit k flipped
FlipBit(v, k) == IF (v \div (2 ^ k)) % 2 = 1 THEN v - 2 ^ k ELSE v + 2 ^ k

\* one bit of the reflected CRC: shift right, and xor the polynomial 0xA001
\* (bits 15, 13 and 0) in when a 1 was shifted out
CrcShift(crc) ==
    IF crc % 2 = 1 THEN FlipBit(FlipBit(FlipBit(crc \div 2, 15), 13), 0)
    ELSE crc \div 2

\* one byte: xor it into the low byte, then eight shifts
CrcByte(crc, byte) ==
    LET c0 == (crc \div 256) * 256 + BitXor(crc % 256, byte, 8)
        c1 == CrcShift(c0)
        c2 == CrcShift(c1)
        c3 == CrcShift(c2)
        c4 == CrcShift(c3)
        c5 == CrcShift(c4)
        c6 == CrcShift(c5)
        c7 == CrcShift(c6)
    IN  CrcShift(c7)

RECURSIVE CrcFold(_, _, _, _)
\* the bytes data[lo..hi] in order, starting from crc; the range is halved so
\* that long buffers are folded at a small depth
CrcFold(data, lo, hi, crc) ==
    IF lo > hi THEN crc
    ELSE IF lo = hi THEN CrcByte(crc, data[lo])
    ELSE LET mid == (lo + hi) \div 2
             left == CrcFold(data, lo, mid, crc)
         IN  IF left < 0 THEN left ELSE CrcFold(data, mid + 1, hi, left)

\* crc16::State::<crc16::MODBUS>::calculate(data): initial value 0xFFFF
Crc16(data) == CrcFold(data, 1, Len(data), 65535)

\* --------------------------------------------------------------- RTU framer
\* mutation of rtu::Frame::encode: the CRC is appended high byte first
RtuFrameEncodeCrcBe(address, pdu) ==
    LET body == <<address>> \o pdu
    IN  Ok(body \o ToBe(Crc16(body)))
\* rtu::Frame::encode of Frame::new(address, pdu)
RtuFrameEncode(address, pdu) ==
    LET body == <<address>> \o pdu
    IN  Ok(body \o ToLe(Crc16(body)))

\* mutation of rtu::Frame::decode: the CRC is not compared
RtuFrameDecodeAnyCrc(data) ==
    LET len == Len(data)
    IN  IF len < 4 THEN Err("InvalidDataLength")
        ELSE Ok([address |-> data[1], pdu |-> SubSeq(data, 2, len - 2)])
\* rtu::Frame::decode: val is [address, pdu]
RtuFrameDecode(data) ==
    LET len == Len(data)
    IN  IF len < 4 THEN Err("InvalidDataLength")
        ELSE IF Crc16(SubSeq(data, 1, len - 2)) # FromLe(data, len - 1)
             THEN Err("InvalidData")
        ELSE Ok([address |-> data[1], pdu |-> SubSeq(data, 2, len - 2)])

\* --------------------------------------------------------------- TCP framer
\* mutation of tcp::Frame::encode: the length field does not count the unit id
TcpFrameEncodeLenOfPdu(transaction_id, unit_id, pdu) ==
    Ok(ToBe(transaction_id) \o ToBe(MODBUS_ID)
       \o ToBe(Len(pdu) % U16) \o <<unit_id>> \o pdu)
\* tcp::Frame::encode of a frame (transaction_id, unit_id, pdu)
TcpFrameEncode(transaction_id, unit_id, pdu) ==
    Ok(ToBe(transaction_id) \o ToBe(MODBUS_ID)
       \o ToBe((Len(pdu) + 1) % U16) \o <<unit_id>> \o pdu)

\* tcp::Frame::decode.  `checked` is the build's overflow-checks setting: the
\* u16 addition of line 51 panics when it overflows in a checked build and
\* wraps in an unchecked one.
TcpFrameDecode(data, checked) ==
    LET len == Len(data)
    IN  IF len < 8 THEN Err("TooShortData")
        ELSE IF FromBe(data, 3) # MODBUS_ID THEN Err("InvalidData")
        ELSE LET sum == FromBe(data, 5) + 6
                 expected_len == sum % U16
             IN  IF sum >= U16 /\ checked THEN Panic("attempt to add with overflow")
                 ELSE IF len < expected_len THEN Err("TooShortData")
                 ELSE IF len > expected_len THEN Err("InvalidDataLength")
                 ELSE Ok([transaction_id |-> FromBe(data, 1),
                          unit_id |-> data[7],
                          pdu |-> SubSeq(data, 8, len)])


\* ---------------------------------------------------------------- PDU codec
\* enum FunctionCode as u8
FunctionCode(name) ==
    CASE name = "ReadCoils" -> 1
      [] name = "ReadDscrIn" -> 2
      [] name = "ReadHldReg" -> 3
      [] name = "ReadInReg" -> 4
      [] name = "WriteSingleCoil" -> 5
      [] name = "WriteSingleReg" -> 6
      [] name = "ExcReadCoils" -> 129
      [] name = "ExcReadDscrIn" -> 130
      [] name = "ExcReadHldReg" -> 131
      [] name = "ExcReadInReg" -> 132
      [] name = "ExcWriteSingleCoil" -> 133
      [] name = "ExcWriteSingleReg" -> 134

\* The functions whose request and response types are in the sources.
Functions == {"ReadCoils", "ReadDscrIn", "ReadInReg", "WriteSingleCoil", "WriteSingleReg"}

\* enum ExceptionCode: the discriminants
ExceptionCodes == {1, 2, 3, 4, 5, 6, 8, 10, 11}

\* impl TryFrom<u8> for ExceptionCode
ExceptionCodeTryFrom(v) ==
    IF v \in ExceptionCodes THEN Ok(<<v>>) ELSE Err("InvalidData")

\* data[i] & (1 << bit_num) != 0
BitSet(byte, bit_num) == (byte \div (2 ^ bit_num)) % 2 = 1

\* the unpacking loop of the bit-read response decoders: data holds
\* byte_count packed bytes from (1-based) index 3
UnpackBits(data, byte_count) ==
    [i \in 1..(byte_count * DSCR_PER_BYTE) |->
        BitSet(data[3 + ((i - 1) \div DSCR_PER_BYTE)], (i - 1) % DSCR_PER_BYTE)]

\* read_coils::Request::encode
ReadCoilsReqEncode(req) ==
    IF req.quantity \in 1..2000
    THEN Ok(<<FunctionCode("ReadCoils")>> \o ToBe(req.address) \o ToBe(req.quantity))
    ELSE Err("InvalidValue")

\* read_dscr_in::Request::encode
ReadDscrInReqEncode(req) ==
    IF req.quantity \in 1..2000
    THEN Ok(<<FunctionCode("ReadDscrIn")>> \o ToBe(req.address) \o ToBe(req.quantity))
    ELSE Err("InvalidValue")

\* mutation of read_in_reg::Request::encode: the bound of the bit reads
ReadInRegReqEncodeTo2000(req) ==
    IF req.quantity \in 1..2000
    THEN Ok(<<FunctionCode("ReadInReg")>> \o ToBe(req.address) \o ToBe(req.quantity))
    ELSE Err("InvalidValue")
\* read_in_reg::Request::encode
ReadInRegReqEncode(req) ==
    IF req.quantity \in MIN_QUANTITY..MAX_QUANTITY
    THEN Ok(<<FunctionCode("ReadInReg")>> \o ToBe(req.address) \o ToBe(req.quantity))
    ELSE Err("InvalidValue")

\* write_single_coil::Message::encode (value is the enum Value as u16)
WriteSingleCoilEncode(msg) ==
    Ok(<<FunctionCode("WriteSingleCoil")>> \o ToBe(msg.address) \o ToBe(msg.value))

\* write_single_reg::Message::encode
WriteSingleRegEncode(msg) ==
    Ok(<<FunctionCode("WriteSingleReg")>> \o ToBe(msg.address) \o ToBe(msg.value))

\* Function::encode dispatched on the request type
ReqEncode(req) ==
    CASE req.fn = "ReadCoils" -> ReadCoilsReqEncode(req)
      [] req.fn = "ReadDscrIn" -> ReadDscrInReqEncode(req)
      [] req.fn = "ReadInReg" -> ReadInRegReqEncode(req)
      [] req.fn = "WriteSingleCoil" -> WriteSingleCoilEncode(req)
      [] req.fn = "WriteSingleReg" -> WriteSingleRegEncode(req)

\* read_coils::Response::decode
ReadCoilsRspDecode(data) ==
    IF Len(data) < 3 THEN Err("InvalidDataLength")
    ELSE IF data[1] # FunctionCode("ReadCoils") THEN Err("InvalidData")
    ELSE IF Len(data) # data[2] + 2 THEN Err("InvalidDataLength")
    ELSE Ok([fn |-> "ReadCoils", coils |-> UnpackBits(data, data[2])])

\* read_dscr_in::Response::decode
ReadDscrInRspDecode(data) ==
    IF Len(data) < 2 THEN Err("InvalidDataLength")
    ELSE IF data[1] # FunctionCode("ReadDscrIn") THEN Err("InvalidData")
    ELSE IF Len(data) # data[2] + 2 THEN Err("InvalidDataLength")
    ELSE Ok([fn |-> "ReadDscrIn", inputs |-> UnpackBits(data, data[2])])

\* read_in_reg::Response::decode
ReadInRegRspDecode(data) ==
    IF Len(data) < 2 THEN Err("InvalidDataLength")
    ELSE IF data[1] # FunctionCode("ReadInReg") THEN Err("InvalidData")
    ELSE IF data[2] % 2 # 0 THEN Err("InvalidData")
    ELSE IF data[2] # Len(data) - 2 THEN Err("InvalidDataLength")
    ELSE Ok([fn |-> "ReadInReg",
             registers |-> [i \in 1..(data[2] \div 2) |-> FromBe(data, 1 + 2 * i)]])

\* impl TryFrom<[u8; 2]> for Value, applied to data[3..=4]
ValueTryFrom(data) ==
    IF FromBe(data, 4) \in {0, 65280} THEN Ok(FromBe(data, 4)) ELSE Err("InvalidData")

\* write_single_coil::Message::decode
WriteSingleCoilDecode(data) ==
    IF Len(data) # 5 THEN Err("InvalidDataLength")
    ELSE IF data[1] # FunctionCode("WriteSingleCoil") THEN Err("InvalidData")
    ELSE IF ~IsOk(ValueTryFrom(data)) THEN ValueTryFrom(data)
    ELSE Ok([fn |-> "WriteSingleCoil", address |-> FromBe(data, 2),
             value |-> ValueTryFrom(data).val])

\* mutation of write_single_reg::Message::decode: the function code is not
\* compared
WriteSingleRegDecodeAnyFunction(data) ==
    IF Len(data) # 5 THEN Err("InvalidDataLength")
    ELSE Ok([fn |-> "WriteSingleReg", address |-> FromBe(data, 2),
             value |-> FromBe(data, 4)])
\* write_single_reg::Message::decode
WriteSingleRegDecode(data) ==
    IF Len(data) # 5 THEN Err("InvalidDataLength")
    ELSE IF data[1] # FunctionCode("WriteSingleReg") THEN Err("InvalidData")
    ELSE Ok([fn |-> "WriteSingleReg", address |-> FromBe(data, 2),
             value |-> FromBe(data, 4)])

\* Function::decode dispatched on the response type
RspDecode(fn, data) ==
    CASE fn = "ReadCoils" -> ReadCoilsRspDecode(data)
      [] fn = "ReadDscrIn" -> ReadDscrInRspDecode(data)
      [] fn = "ReadInReg" -> ReadInRegRspDecode(data)
      [] fn = "WriteSingleCoil" -> WriteSingleCoilDecode(data)
      [] fn = "WriteSingleReg" -> WriteSingleRegDecode(data)

\* Response::get_exc_function_code of each response type
GetExcFunctionCode(fn) ==
    CASE fn = "ReadCoils" -> FunctionCode("ExcReadCoils")
      [] fn = "ReadDscrIn" -> FunctionCode("ExcReadDscrIn")
      [] fn = "ReadInReg" -> FunctionCode("ExcReadInReg")
      [] fn = "WriteSingleCoil" -> FunctionCode("ExcWriteSingleCoil")
      [] fn = "WriteSingleReg" -> FunctionCode("ExcWriteSingleReg")

\* mutation of decode_exc_rsp: the exception code is not looked up
DecodeExcRspAnyCode(data, exp_fnc_code) ==
    IF Len(data) # 2 THEN Err("InvalidDataLength")
    ELSE IF data[1] # exp_fnc_code THEN Err("InvalidData")
    ELSE Ok(<<data[2]>>)
\* Response::decode_exc_rsp(data, Some(exp_fnc_code))
DecodeExcRsp(data, exp_fnc_code) ==
    IF Len(data) # 2 THEN Err("InvalidDataLength")
    ELSE IF data[1] # exp_fnc_code THEN Err("InvalidData")
    ELSE ExceptionCodeTryFrom(data[2])

\* Response::decode_response
DecodeResponse(fn, data) ==
    LET exc == DecodeExcRsp(data, GetExcFunctionCode(fn))
    IN  IF IsOk(exc) THEN ExcErr(exc.val[1]) ELSE RspDecode(fn, data)

\* ------------------------------------------------------- request decoders
\* read_coils::Request::decode
ReadCoilsReqDecode(data) ==
    IF Len(data) # 5 THEN Err("InvalidDataLength")
    ELSE IF data[1] # FunctionCode("ReadCoils") THEN Err("InvalidData")
    ELSE Ok([fn |-> "ReadCoils", address |-> FromBe(data, 2),
             quantity |-> FromBe(data, 4)])

\* read_dscr_in::Request::decode
ReadDscrInReqDecode(data) ==
    IF Len(data) # 5 THEN Err("InvalidDataLength")
    ELSE IF data[1] # FunctionCode("ReadDscrIn") THEN Err("InvalidData")
    ELSE Ok([fn |-> "ReadDscrIn", address |-> FromBe(data, 2),
             quantity |-> FromBe(data, 4)])

\* read_hld_reg::Request::decode; the file is not in the sources, the decoder
\* follows the decoder contract of the specification (length, function code)
ReadHldRegReqDecode(data) ==
    IF Len(data) # 5 THEN Err("InvalidDataLength")
    ELSE IF data[1] # FunctionCode("ReadHldReg") THEN Err("InvalidData")
    ELSE Ok([fn |-> "ReadHldReg", address |-> FromBe(data, 2),
             quantity |-> FromBe(data, 4)])

\* read_in_reg::Request::decode
ReadInRegReqDecode(data) ==
    IF Len(data) # 5 THEN Err("InvalidDataLength")
    ELSE IF data[1] # FunctionCode("ReadInReg") THEN Err("InvalidData")
    ELSE Ok([fn |-> "ReadInReg", address |-> FromBe(data, 2),
             quantity |-> FromBe(data, 4)])

\* FunctionCode::WriteMultiReg as u8; the enum of pdu/mod.rs has no such
\* variant, the value is the one the tests of write_multi_reg.rs encode
WriteMultiRegCode == 16
\* write_multi_reg: MIN_QUANTITY and MAX_QUANTITY
WriteMultiRegMinQuantity == 1
WriteMultiRegMaxQuantity == 123

\* write_multi_reg::Request::decode.  `quantity * 2` is a u16 product: in a
\* build with overflow checks (checked) it panics when it overflows, otherwise
\* it wraps.  The value loop indexes data[val_idx..=val_idx+1] and panics when
\* the buffer ends before it.
WriteMultiRegReqDecode(data, checked) ==
    IF Len(data) < 6 THEN Err("InvalidDataLength")
    ELSE IF data[1] # WriteMultiRegCode THEN Err("InvalidData")
    ELSE LET address == FromBe(data, 2)
             quantity == FromBe(data, 4)
             data_cnt == data[6]
             product == quantity * 2
         IN  IF product >= U16 /\ checked
             THEN Panic("attempt to multiply with overflow")
             ELSE IF data_cnt # product % U16 THEN Err("InvalidDataLength")
             ELSE IF quantity < WriteMultiRegMinQuantity
                     \/ quantity > WriteMultiRegMaxQuantity
                  THEN Err("InvalidData")
             ELSE IF \E i \in 0..(quantity - 1) : 6 + i * 2 + 2 > Len(data)
                  THEN Panic("range end index out of range for slice")
             ELSE Ok([fn |-> "WriteMultiReg", address |-> address,
                      values |-> [i \in 1..quantity |-> FromBe(data, 5 + 2 * i)]])

\* Ok(RequestData::variant(decoded?)) of decode_req
Wrapped(variant, decoded) ==
    IF IsOk(decoded) THEN Ok([variant |-> variant, req |-> decoded.val]) ELSE decoded

\* pdu::decode_req
DecodeReq(pdu) ==
    IF Len(pdu) < 2 THEN Err("InvalidDataLength")
    ELSE CASE pdu[1] = FunctionCode("ReadCoils") ->
                Wrapped("ReadCoils", ReadCoilsReqDecode(pdu))
           [] pdu[1] = FunctionCode("ReadDscrIn") ->
                Wrapped("ReadDscrIn", ReadDscrInReqDecode(pdu))
           [] pdu[1] = FunctionCode("ReadHldReg") ->
                Wrapped("ReadHldReg", ReadHldRegReqDecode(pdu))
           [] pdu[1] = FunctionCode("ReadInReg") ->
                Wrapped("ReadInReg", ReadInRegReqDecode(pdu))
           [] pdu[1] = FunctionCode("WriteSingleCoil") ->
                Wrapped("WriteSingleCoil", WriteSingleCoilDecode(pdu))
           [] pdu[1] = FunctionCode("WriteSingleReg") ->
                Wrapped("WriteSingleReg", WriteSingleRegDecode(pdu))
           [] OTHER -> Err("InvalidData")

\* ------------------------------------------------------------- PDU encoders
\* pdu::MAX_SIZE
MAX_SIZE == 253

\* mutation of the packing loop: the first value of a byte goes to bit 7
PackByteMsbFirst(values, byte_num) ==
    LET Bit(bit_num) ==
            LET id == byte_num * DSCR_PER_BYTE + bit_num
            IN  IF id < Len(values) /\ values[id + 1] THEN 2 ^ (7 - bit_num) ELSE 0
    IN  Bit(0) + Bit(1) + Bit(2) + Bit(3) + Bit(4) + Bit(5) + Bit(6) + Bit(7)
\* the inner loop of the bit-read response encoders: byte byte_num (from 0) of
\* the packed values; `byte |= 1 << bit_num` adds a bit that is not yet set
PackByte(values, byte_num) ==
    LET Bit(bit_num) ==
            LET id == byte_num * DSCR_PER_BYTE + bit_num
            IN  IF id < Len(values) /\ values[id + 1] THEN 2 ^ bit_num ELSE 0
    IN  Bit(0) + Bit(1) + Bit(2) + Bit(3) + Bit(4) + Bit(5) + Bit(6) + Bit(7)

\* len / DSCR_PER_BYTE + if len % DSCR_PER_BYTE > 0 { 1 } else { 0 }
ByteCount(len) ==
    (len \div DSCR_PER_BYTE) + (IF len % DSCR_PER_BYTE > 0 THEN 1 ELSE 0)

\* read_coils::Response::encode
ReadCoilsRspEncode(coils) ==
    LET byte_count == ByteCount(Len(coils))
    IN  IF byte_count = 0 THEN Err("InvalidValue")
        ELSE IF byte_count \in 1..(MAX_SIZE - 2)
        THEN Ok(<<FunctionCode("ReadCoils"), byte_count % 256>>
                \o [b \in 1..byte_count |-> PackByte(coils, b - 1)])
        ELSE Err("InvalidValue")

\* read_dscr_in::Response::encode
ReadDscrInRspEncode(inputs) ==
    LET byte_count == ByteCount(Len(inputs))
    IN  IF byte_count \in 1..(MAX_SIZE - 3)
        THEN Ok(<<FunctionCode("ReadDscrIn"), byte_count % 256>>
                \o [b \in 1..byte_count |-> PackByte(inputs, b - 1)])
        ELSE Err("InvalidValue")

\* read_in_reg::Response::encode of the registers regs
ReadInRegRspEncode(regs) ==
    Ok(<<FunctionCode("ReadInReg"), (Len(regs) * 2) % 256>>
       \o [i \in 1..(2 * Len(regs)) |->
              IF i % 2 = 1 THEN regs[(i + 1) \div 2] \div 256 ELSE regs[i \div 2] % 256])

\* mutation of write_multi_reg::Request::encode: the byte count is the number
\* of registers
WriteMultiRegReqEncodeCountOfRegs(req) ==
    LET len == Len(req.values)
    IN  IF len \in WriteMultiRegMinQuantity..WriteMultiRegMaxQuantity
        THEN Ok(<<WriteMultiRegCode>> \o ToBe(req.address) \o ToBe(len % U16)
                \o <<len % 256>>
                \o [i \in 1..(2 * len) |->
                       IF i % 2 = 1 THEN req.values[(i + 1) \div 2] \div 256
                       ELSE req.values[i \div 2] % 256])
        ELSE Err("InvalidValue")
\* write_multi_reg::Request::encode; the u8 product of the byte count cannot
\* overflow for a length the match lets through
WriteMultiRegReqEncode(req) ==
    LET len == Len(req.values)
    IN  IF len \in WriteMultiRegMinQuantity..WriteMultiRegMaxQuantity
        THEN Ok(<<WriteMultiRegCode>> \o ToBe(req.address) \o ToBe(len % U16)
                \o <<(len % 256) * 2>>
                \o [i \in 1..(2 * len) |->
                       IF i % 2 = 1 THEN req.values[(i + 1) \div 2] \div 256
                       ELSE req.values[i \div 2] % 256])
        ELSE Err("InvalidValue")

\* Function::encode / Function::decode of a request or response value x
Encode(x) ==
    CASE x.kind = "request" -> ReqEncode(x)
      [] x.kind = "response" /\ x.fn = "ReadCoils" -> ReadCoilsRspEncode(x.values)
      [] x.kind = "response" /\ x.fn = "ReadDscrIn" -> ReadDscrInRspEncode(x.values)
      [] x.kind = "response" /\ x.fn = "ReadInReg" -> ReadInRegRspEncode(x.values)
      [] x.kind = "write_multi_reg" -> WriteMultiRegReqEncode(x)
Decode(x, data, checked) ==
    CASE x.kind = "request" /\ x.fn = "ReadCoils" -> ReadCoilsReqDecode(data)
      [] x.kind = "request" /\ x.fn = "ReadDscrIn" -> ReadDscrInReqDecode(data)
      [] x.kind = "request" /\ x.fn = "ReadInReg" -> ReadInRegReqDecode(data)
      [] x.kind = "response" -> RspDecode(x.fn, data)
      [] x.kind = "write_multi_reg" -> WriteMultiRegReqDecode(data, checked)

\* -------------------------------------------------------- transport facade
OptNone == [some |-> FALSE, v |-> <<>>]
OptSome(r) == [some |-> TRUE, v |-> r]

\* rtu::Role
Master == [kind |-> "Master", id |-> 0]
Slave(u) == [kind |-> "Slave", id |-> u]

\* Transport::is_broadcast of Rtu (dst is the unit id)
RtuIsBroadcast(dst) == dst = BROADCAST_DST
\* Transport::is_broadcast of Tcp (dst.unit_id)
\* mutation of Tcp::is_broadcast: the broadcast unit id is taken to be 255
TcpIsBroadcast255(dst) == dst = 255
TcpIsBroadcast(dst) == dst = BROADCAST_UNIT_ID

\* Rtu::start_slave: the role after the call and its result
RtuStartSlaveOutcome(cur, unit_id) ==
    IF unit_id \in 1..247
    THEN [role |-> Slave(unit_id), res |-> Ok(<<>>)]
    ELSE [role |-> cur, res |-> Err("InvalidValue")]

\* Tcp::start_slave: unit_id is stored first, then the listener is bound; `bound`
\* is the outcome of TcpListener::bind.
TcpStartSlaveOutcome(cur_listener, unit, bound) ==
    IF bound
    THEN [unit_id |-> unit, listener |-> TRUE, res |-> Ok(<<>>)]
    ELSE [unit_id |-> unit, listener |-> cur_listener, res |-> Err("IoError")]

\* Rtu::read_pdu at a read timeout that ends the frame: decode, then the
\* address check
\* mutation of Rtu::read_pdu: the address of the frame is not compared
RtuReadPduResultAnyAddress(rsp_frame, expected_unit_id) ==
    LET frame == RtuFrameDecode(rsp_frame)
    IN  IF ~IsOk(frame) THEN frame ELSE Ok(frame.val.pdu)
RtuReadPduResult(rsp_frame, expected_unit_id) ==
    LET frame == RtuFrameDecode(rsp_frame)
    IN  IF ~IsOk(frame) THEN frame
        ELSE IF frame.val.address = expected_unit_id THEN Ok(frame.val.pdu)
        ELSE Err("InvalidData")

\* mutation of Tcp::read_pdu: a frame whose transaction id is not 0 is refused
TcpReadPduStepTransactionZero(frame_pdu, expected_unit_id, checked) ==
    LET frame == TcpFrameDecode(frame_pdu, checked)
    IN  CASE frame.kind = "Panic" -> frame
          [] frame.kind = "Err" /\ frame.err = "TooShortData" ->
                [kind |-> "Continue", err |-> "", val |-> <<>>]
          [] frame.kind = "Ok" ->
                IF frame.val.unit_id = expected_unit_id /\ frame.val.transaction_id = 0
                THEN Ok(frame.val.pdu) ELSE Err("InvalidData")
          [] OTHER -> Panic("Unexpected parsing error")
\* Tcp::read_pdu after a byte was pushed: kind "Continue" stands for the next
\* turn of the loop
TcpReadPduStep(frame_pdu, expected_unit_id, checked) ==
    LET frame == TcpFrameDecode(frame_pdu, checked)
    IN  CASE frame.kind = "Panic" -> frame
          [] frame.kind = "Err" /\ frame.err = "TooShortData" ->
                [kind |-> "Continue", err |-> "", val |-> <<>>]
          [] frame.kind = "Ok" ->
                IF frame.val.unit_id = expected_unit_id
                THEN Ok(frame.val.pdu) ELSE Err("InvalidData")
          [] OTHER -> Panic("Unexpected parsing error")

\* Transport::write_req_read_rsp after read_rsp_pdu returned r
ExchangeTail(fn, r) ==
    IF ~IsOk(r) THEN r
    ELSE LET rsp == DecodeResponse(fn, r.val)
         IN  IF IsOk(rsp) THEN Ok(OptSome(rsp.val)) ELSE rsp

\* Transport::write_setter_req after read_rsp_pdu returned r
\* mutation of write_setter_req: only the address of the echo is compared
SetterTailAddressOnly(req, r) ==
    IF ~IsOk(r) THEN r
    ELSE LET rsp == DecodeResponse(req.fn, r.val)
         IN  IF ~IsOk(rsp) THEN rsp
             ELSE IF req.address = rsp.val.address
                  THEN Ok(<<>>) ELSE Err("InvalidData")
SetterTail(req, r) ==
    IF ~IsOk(r) THEN r
    ELSE LET rsp == DecodeResponse(req.fn, r.val)
         IN  IF ~IsOk(rsp) THEN rsp
             ELSE IF req.address = rsp.val.address /\ req.value = rsp.val.value
                  THEN Ok(<<>>) ELSE Err("InvalidData")

\* Rtu::read_req_pdu: whether the loop takes another turn after read_pdu
\* returned r
RtuReadReqLoops(r) == ~IsOk(r)

\* --------------------------------------------------------- inputs of the model
\* unit ids passed to start_slave
UnitIds == {0, 1, 247, 248}
\* destinations of master calls: broadcast and one unit
Dsts == {0, 1}
\* addresses of the frames a peer puts on the serial line
RtuPeerUnits == {0, 1, 2}
\* unit ids of the frames a peer writes to a TCP connection
TcpPeerUnits == {1, 2}

NoReq == [fn |-> "none", address |-> 0, quantity |-> 0, value |-> 0]
Rq(fn, a, q, v) == [fn |-> fn, address |-> a, quantity |-> q, value |-> v]
\* requests of write_req_read_rsp; the second one does not encode
Reqs == {Rq("ReadCoils", 0, 1, 0), Rq("ReadCoils", 0, 0, 0), Rq("ReadInReg", 1, 1, 0)}
\* requests of write_setter_req (the Setter implementations)
SetterReqs == {Rq("WriteSingleReg", 1, 0, 2), Rq("WriteSingleReg", 2, 0, 2)}
\* responses of write_rsp; the second one does not encode
Rsps ==
    {[kind |-> "response", fn |-> "ReadCoils", values |-> <<TRUE, FALSE>>],
     [kind |-> "response", fn |-> "ReadCoils", values |-> <<>>]}
\* PDUs handed to the PDU-level calls
CallPdus == {<<1, 0, 0, 0, 1>>}
\* a frame whose last CRC byte is damaged on the line
Damaged(frame) ==
    [i \in 1..Len(frame) |->
        IF i = Len(frame) THEN BitXor(frame[i], 1, 8) ELSE frame[i]]

\* PDUs a peer sends while call c reads: to a PDU-level call the PDU is opaque;
\* to an exchange the peer gives an answer of the function, exception PDUs with
\* a known and an unknown code, and an answer of another function
PeerPdus(c) ==
    CASE c.req.fn = "ReadCoils" -> {<<1, 1, 1>>, <<129, 2>>, <<129, 7>>, <<4, 2, 0, 5>>}
      [] c.req.fn = "ReadInReg" -> {<<4, 2, 0, 5>>, <<132, 11>>, <<1, 1, 1>>}
      [] c.req.fn = "WriteSingleReg" ->
            {<<6, 0, 1, 0, 2>>, <<6, 0, 1, 0, 3>>, <<6, 0, 2, 0, 2>>, <<134, 1>>,
             <<4, 2, 0, 5>>}
      [] OTHER -> {<<1, 1, 1>>, <<6, 0, 1, 0, 2>>}

\* what a peer puts on the serial line: frames to this and to other units, and
\* frames damaged on the line
RtuPeerFrames(c) ==
    {RtuFrameEncode(a, p).val : a \in RtuPeerUnits, p \in PeerPdus(c)}
    \cup {Damaged(RtuFrameEncode(a, <<1, 1, 1>>).val) : a \in RtuPeerUnits}

TcpFrameBytes(t, proto, l, u, p) ==
    ToBe(t) \o ToBe(proto) \o ToBe(l) \o <<u>> \o p

\* what a peer writes to a TCP connection: well-formed frames, and headers with
\* another protocol id or a declared length that is not that of the PDU
TcpPeerStreams(c) ==
    {s \in {TcpFrameBytes(0, 0, Len(p) + 1, u, p) : u \in TcpPeerUnits, p \in PeerPdus(c)}
            \cup {TcpFrameBytes(5377, 0, 4, 1, <<1, 1, 1>>),
                   TcpFrameBytes(0, 1, 4, 1, <<1, 1, 1>>)}
            \cup {TcpFrameBytes(0, 0, l, 1, <<1, 1, 1>>) :
                    l \in {0, 1, 3, 5, 65530, 65535}} :
        Len(s) <= MaxStream}

VARIABLES
    tr,        \* the transport of the session: "rtu" or "tcp"
    role,      \* Rtu.role
    listener,  \* Tcp.listener is Some
    unit_id,   \* Tcp.unit_id
    started,   \* the last start_* call that returned Ok: "none", "master", "slave"
    pc,        \* "idle", "read" (inside read_pdu) or "panicked"
    call,      \* the call in progress, or the last one
    rd,        \* read_pdu's parameters: expected unit id, infinitely
    buf,       \* read_pdu's accumulator (rsp_frame / frame_pdu)
    wire,      \* bytes the peer has sent and the transport has not read yet
    inner,     \* how the last read_pdu of the call returned, and the buffer it decoded
    io,        \* the I/O the call has performed so far
    res,       \* the result of the call (NoResult while it runs)
    TRANSACTION_ID,  \* the static TRANSACTION_ID of tcp/frame.rs
    now,       \* Instant::now(), the monotonic clock
    last_baud_timestamp  \* Rtu.last_baud_timestamp

\* the clock and the timestamp Rtu keeps of it
clock == <<now, last_baud_timestamp>>

vars == <<tr, role, listener, unit_id, started, pc, call, rd, buf, wire, inner, io, res,
          TRANSACTION_ID, now, last_baud_timestamp>>

\* AtomicU16::fetch_add(1, Ordering::Relaxed) on the value v: one atomic step
\* that returns the previous value and stores the sum, which wraps
FetchAddReturnsNew(v) == [prev |-> (v + 1) % U16, next |-> (v + 1) % U16]
FetchAdd(v) == [prev |-> v, next |-> (v + 1) % U16]
\* get_transaction_id
GetTransactionId == FetchAdd(TRANSACTION_ID)
\* mutation of Frame::new of tcp/frame.rs: the unit id is not stored
TcpFrameNewUnitZero(unit, pdu) ==
    [transaction_id |-> GetTransactionId.prev, unit_id |-> 0, pdu |-> pdu]
\* Frame::new of tcp/frame.rs
TcpFrameNew(unit, pdu) ==
    [transaction_id |-> GetTransactionId.prev, unit_id |-> unit, pdu |-> pdu]
\* The counter over a call of a session that builds a frame when made holds;
\* a session builds at most MaxFrames frames.
FramesMade(made) ==
    IF made
    THEN /\ TRANSACTION_ID < MaxFrames
         /\ TRANSACTION_ID' = GetTransactionId.next
    ELSE UNCHANGED TRANSACTION_ID

Call(op, dst, req, pdu) == [op |-> op, dst |-> dst, req |-> req, pdu |-> pdu]
NoRd == [expected |-> 0, infinitely |-> FALSE]
NoInner == [res |-> NoResult, frame |-> <<>>, cause |-> "none", dec |-> "none"]
\* what a Frame::decode returned, as a word: "Ok", the error, or "Panic"
Outcome(r) == IF r.kind = "Err" THEN r.err ELSE r.kind

Init ==
    /\ tr \in {"rtu", "tcp"}
    /\ role = Master
    /\ listener = FALSE
    /\ unit_id = 255
    /\ started = "none"
    /\ pc = "idle"
    /\ call = Call("none", 0, NoReq, <<>>)
    /\ rd = NoRd
    /\ buf = <<>>
    /\ wire = <<>>
    /\ inner = NoInner
    /\ io = <<>>
    /\ res = NoResult
    /\ TRANSACTION_ID = 0
    /\ now = 0
    /\ last_baud_timestamp = 0

\* a read of the line or socket is logged once
LogRead(log) ==
    IF log # <<>> /\ log[Len(log)] = "read" THEN log ELSE Append(log, "read")

\* A call that returns at once.
Return(c, r, log) ==
    /\ pc' = "idle"
    /\ call' = c
    /\ res' = r
    /\ io' = log
    /\ rd' = NoRd
    /\ buf' = <<>>
    /\ wire' = <<>>
    /\ inner' = NoInner

\* A call that enters read_pdu.
EnterRead(c, expected, infinitely, log) ==
    /\ pc' = "read"
    /\ call' = c
    /\ res' = NoResult
    /\ io' = log
    /\ rd' = [expected |-> expected, infinitely |-> infinitely]
    /\ buf' = <<>>
    /\ wire' = <<>>
    /\ inner' = NoInner

\* ------------------------------------------------------------ RTU: calls
\* Rtu::start_master
RtuStartMaster ==
    /\ tr = "rtu" /\ pc = "idle"
    /\ role' = Master
    /\ started' = "master"
    /\ Return(Call("start_master", 0, NoReq, <<>>), Ok(<<>>), <<>>)
    /\ UNCHANGED <<clock, TRANSACTION_ID, tr, listener, unit_id>>

\* Rtu::start_slave
RtuStartSlave(u) ==
    /\ tr = "rtu" /\ pc = "idle"
    /\ LET out == RtuStartSlaveOutcome(role, u)
       IN  /\ role' = out.role
           /\ started' = IF IsOk(out.res) THEN "slave" ELSE started
           /\ Return(Call("start_slave", u, NoReq, <<>>), out.res, <<>>)
    /\ UNCHANGED <<clock, TRANSACTION_ID, tr, listener, unit_id>>

\* Rtu::write_pdu: the gap sleep, Frame::encode, write_all and flush; wok is
\* whether the serial port took the frame
RtuWritePdu(wok) == IF wok THEN Ok(<<>>) ELSE Err("IoError")

\* Rtu::write_req_pdu
RtuWriteReqPdu(dst, pdu, wok) ==
    /\ tr = "rtu" /\ pc = "idle"
    /\ Return(Call("write_req_pdu", dst, NoReq, pdu), RtuWritePdu(wok),
              <<IF wok THEN "tx" ELSE "txfail">>)
    /\ UNCHANGED <<clock, TRANSACTION_ID, tr, role, listener, unit_id, started>>

\* Rtu::read_rsp_pdu
RtuReadRspPdu(src) ==
    /\ tr = "rtu" /\ pc = "idle"
    /\ EnterRead(Call("read_rsp_pdu", src, NoReq, <<>>), src, FALSE, <<>>)
    /\ UNCHANGED <<clock, TRANSACTION_ID, tr, role, listener, unit_id, started>>

\* Rtu::read_req_pdu
RtuReadReqPdu ==
    /\ tr = "rtu" /\ pc = "idle"
    /\ IF role.kind = "Slave"
       THEN EnterRead(Call("read_req_pdu", 0, NoReq, <<>>), role.id, TRUE, <<>>)
       ELSE Return(Call("read_req_pdu", 0, NoReq, <<>>), Err("InvalidValue"), <<>>)
    /\ UNCHANGED <<clock, TRANSACTION_ID, tr, role, listener, unit_id, started>>

\* Rtu::write_rsp_pdu
RtuWriteRspPdu(pdu, wok) ==
    /\ tr = "rtu" /\ pc = "idle"
    /\ IF role.kind = "Slave"
       THEN Return(Call("write_rsp_pdu", 0, NoReq, pdu), RtuWritePdu(wok),
                   <<IF wok THEN "tx" ELSE "txfail">>)
       ELSE Return(Call("write_rsp_pdu", 0, NoReq, pdu), Err("InvalidValue"), <<>>)
    /\ UNCHANGED <<clock, TRANSACTION_ID, tr, role, listener, unit_id, started>>

\* mutation of Transport::write_rsp: the line is written whatever encode
\* returned
RtuWriteRspWritesFirst(response, wok) ==
    /\ tr = "rtu" /\ pc = "idle"
    /\ LET c == Call("write_rsp", 0, response, <<>>)
           pdu == Encode(response)
       IN  IF role.kind = "Slave"
           THEN Return(c, IF IsOk(pdu) THEN RtuWritePdu(wok) ELSE pdu,
                       <<IF wok THEN "tx" ELSE "txfail">>)
           ELSE Return(c, Err("InvalidValue"), <<>>)
    /\ UNCHANGED <<clock, TRANSACTION_ID, tr, role, listener, unit_id, started>>
\* Transport::write_rsp on Rtu: response.encode()?, then write_rsp_pdu
RtuWriteRsp(response, wok) ==
    /\ tr = "rtu" /\ pc = "idle"
    /\ LET c == Call("write_rsp", 0, response, <<>>)
           pdu == Encode(response)
       IN  IF ~IsOk(pdu) THEN Return(c, pdu, <<>>)
           ELSE IF role.kind = "Slave"
                THEN Return(c, RtuWritePdu(wok), <<IF wok THEN "tx" ELSE "txfail">>)
           ELSE Return(c, Err("InvalidValue"), <<>>)
    /\ UNCHANGED <<clock, TRANSACTION_ID, tr, role, listener, unit_id, started>>

\* Transport::write_req_read_rsp and Transport::write_setter_req on Rtu, up to
\* the read of the response
RtuExchange(op, dst, req, wok) ==
    /\ tr = "rtu" /\ pc = "idle"
    /\ LET c == Call(op, dst, req, <<>>)
           req_pdu == ReqEncode(req)
       IN  IF ~IsOk(req_pdu) THEN Return(c, req_pdu, <<>>)
           ELSE IF ~wok THEN Return(c, RtuWritePdu(wok), <<"txfail">>)
           ELSE IF RtuIsBroadcast(dst)
                THEN Return(c, IF op = "write_req_read_rsp" THEN Ok(OptNone) ELSE Ok(<<>>),
                            <<"tx">>)
           ELSE EnterRead(c, dst, FALSE, <<"tx">>)
    /\ UNCHANGED <<clock, TRANSACTION_ID, tr, role, listener, unit_id, started>>

\* ------------------------------------------------- RTU: inside read_pdu
\* The peer puts a frame on the idle line.
RtuPeerSends(f) ==
    /\ tr = "rtu" /\ pc = "read"
    /\ wire = <<>> /\ buf = <<>>
    /\ wire' = f
    /\ inner' = NoInner
    /\ UNCHANGED <<clock, TRANSACTION_ID, tr, role, listener, unit_id, started, pc, call, rd, buf, io, res>>

\* serial.read returns Ok(1): push the byte
RtuReadByte ==
    /\ tr = "rtu" /\ pc = "read"
    /\ wire # <<>>
    /\ buf' = Append(buf, Head(wire))
    /\ wire' = Tail(wire)
    /\ io' = LogRead(io)
    /\ UNCHANGED <<clock, TRANSACTION_ID, tr, role, listener, unit_id, started, pc, call, rd, inner, res>>

\* The caller's result once Rtu::read_pdu returned r to a master-side call.
RtuCallResult(c, r) ==
    CASE c.op = "write_req_read_rsp" -> ExchangeTail(c.req.fn, r)
      [] c.op = "write_setter_req" -> SetterTail(c.req, r)
      [] OTHER -> r

\* Rtu::read_pdu returns r: read_req_pdu loops on an error, every other call
\* goes on with r
RtuReadPduReturns(r, cause) ==
    /\ inner' = IF cause = "timeout"
                THEN [res |-> r, frame |-> buf, cause |-> cause,
                      dec |-> Outcome(RtuFrameDecode(buf))]
                ELSE [res |-> r, frame |-> <<>>, cause |-> cause, dec |-> "none"]
    /\ io' = LogRead(io)
    /\ buf' = <<>>
    /\ IF call.op = "read_req_pdu" /\ RtuReadReqLoops(r)
       THEN UNCHANGED <<pc, res, rd, wire>>
       ELSE /\ pc' = "idle"
            /\ res' = RtuCallResult(call, r)
            /\ rd' = NoRd
            /\ wire' = <<>>
    /\ UNCHANGED <<clock, TRANSACTION_ID, tr, role, listener, unit_id, started, call>>

\* mutation of the timeout arm of Rtu::read_pdu: `infinitely` is not looked at
RtuReadTimeoutEndsAnyRead ==
    /\ tr = "rtu" /\ pc = "read"
    /\ RtuReadPduReturns(RtuReadPduResult(buf, rd.expected), "timeout")
\* serial.read returns Err(TimedOut)
RtuReadTimeout ==
    /\ tr = "rtu" /\ pc = "read"
    /\ IF rd.infinitely /\ Len(buf) = 0
       THEN /\ io' = LogRead(io)
            /\ UNCHANGED <<clock, TRANSACTION_ID, tr, role, listener, unit_id, started, pc, call, rd,
                           buf, wire, inner, res>>
       ELSE RtuReadPduReturns(RtuReadPduResult(buf, rd.expected), "timeout")

\* serial.read returns another error
RtuReadIoError ==
    /\ tr = "rtu" /\ pc = "read"
    /\ RtuReadPduReturns(Err("IoError"), "io")

\* ------------------------------------------------------------ TCP: calls
\* Tcp::start_master
TcpStartMaster ==
    /\ tr = "tcp" /\ pc = "idle"
    /\ started' = "master"
    /\ Return(Call("start_master", 0, NoReq, <<>>), Ok(<<>>), <<>>)
    /\ UNCHANGED <<clock, TRANSACTION_ID, tr, role, listener, unit_id>>

\* Tcp::start_slave; the port cannot be bound while this transport's own
\* listener holds it
TcpStartSlave(u, bound) ==
    /\ tr = "tcp" /\ pc = "idle"
    /\ bound => ~listener
    /\ LET out == TcpStartSlaveOutcome(listener, u, bound)
       IN  /\ unit_id' = out.unit_id
           /\ listener' = out.listener
           /\ started' = IF IsOk(out.res) THEN "slave" ELSE started
           /\ Return(Call("start_slave", u, NoReq, <<>>), out.res,
                     <<IF bound THEN "bind" ELSE "bindfail">>)
    /\ UNCHANGED <<clock, TRANSACTION_ID, tr, role>>

\* The caller holds an open TcpStream: the one write_req_pdu or read_req_pdu has
\* just returned, or the one it has just read a response from.
HasStream ==
    \/ call.op \in {"write_req_pdu", "read_req_pdu"} /\ IsOk(res)
    \/ call.op = "read_rsp_pdu"

\* Tcp::connect then Tcp::write_pdu: the I/O done and whether a frame went out
TcpConnectWrite(cok, wok) ==
    IF ~cok THEN [ok |-> FALSE, log |-> <<"connectfail">>]
    ELSE IF ~wok THEN [ok |-> FALSE, log |-> <<"connect", "txfail">>]
    ELSE [ok |-> TRUE, log |-> <<"connect", "tx">>]

\* Tcp::write_req_pdu
TcpWriteReqPdu(dst, pdu, cok, wok) ==
    /\ tr = "tcp" /\ pc = "idle"
    /\ LET w == TcpConnectWrite(cok, wok)
       IN  Return(Call("write_req_pdu", dst, NoReq, pdu),
                  IF w.ok THEN Ok(<<>>) ELSE Err("IoError"), w.log)
    /\ FramesMade(cok)
    /\ UNCHANGED <<clock, tr, role, listener, unit_id, started>>

\* Tcp::read_rsp_pdu on a stream the caller holds
TcpReadRspPdu(src) ==
    /\ tr = "tcp" /\ pc = "idle"
    /\ HasStream
    /\ EnterRead(Call("read_rsp_pdu", src, NoReq, <<>>), src, FALSE, <<>>)
    /\ UNCHANGED <<clock, TRANSACTION_ID, tr, role, listener, unit_id, started>>

\* Tcp::read_req_pdu: aok is whether accept returned a connection
TcpReadReqPdu(aok) ==
    /\ tr = "tcp" /\ pc = "idle"
    /\ LET c == Call("read_req_pdu", 0, NoReq, <<>>)
       IN  IF ~listener THEN Return(c, Err("InvalidValue"), <<>>)
           ELSE IF ~aok THEN Return(c, Err("IoError"), <<"acceptfail">>)
           ELSE EnterRead(c, unit_id, FALSE, <<"accept">>)
    /\ UNCHANGED <<clock, TRANSACTION_ID, tr, role, listener, unit_id, started>>

\* Tcp::write_rsp_pdu on a stream the caller holds
TcpWriteRspPdu(pdu, wok) ==
    /\ tr = "tcp" /\ pc = "idle"
    /\ HasStream
    /\ Return(Call("write_rsp_pdu", 0, NoReq, pdu),
              IF wok THEN Ok(<<>>) ELSE Err("IoError"),
              <<IF wok THEN "tx" ELSE "txfail">>)
    /\ FramesMade(TRUE)
    /\ UNCHANGED <<clock, tr, role, listener, unit_id, started>>

\* Transport::write_rsp on Tcp, with the stream the caller holds:
\* response.encode()?, then write_rsp_pdu
TcpWriteRsp(response, wok) ==
    /\ tr = "tcp" /\ pc = "idle"
    /\ HasStream
    /\ LET c == Call("write_rsp", 0, response, <<>>)
           pdu == Encode(response)
       IN  IF ~IsOk(pdu) THEN Return(c, pdu, <<>>)
           ELSE Return(c, IF wok THEN Ok(<<>>) ELSE Err("IoError"),
                       <<IF wok THEN "tx" ELSE "txfail">>)
    /\ FramesMade(IsOk(Encode(response)))
    /\ UNCHANGED <<clock, tr, role, listener, unit_id, started>>

\* Transport::write_req_read_rsp and Transport::write_setter_req on Tcp, up to
\* the read of the response
TcpExchange(op, dst, req, cok, wok) ==
    /\ tr = "tcp" /\ pc = "idle"
    /\ LET c == Call(op, dst, req, <<>>)
           req_pdu == ReqEncode(req)
           w == TcpConnectWrite(cok, wok)
       IN  IF ~IsOk(req_pdu) THEN Return(c, req_pdu, <<>>)
           ELSE IF ~w.ok THEN Return(c, Err("IoError"), w.log)
           ELSE IF TcpIsBroadcast(dst)
                THEN Return(c, IF op = "write_req_read_rsp" THEN Ok(OptNone) ELSE Ok(<<>>),
                            w.log)
           ELSE EnterRead(c, dst, FALSE, w.log)
    /\ FramesMade(IsOk(ReqEncode(req)) /\ cok)
    /\ UNCHANGED <<clock, tr, role, listener, unit_id, started>>

\* ------------------------------------------------- TCP: inside read_pdu
\* The peer writes its bytes to the connection.
TcpPeerSends(s) ==
    /\ tr = "tcp" /\ pc = "read"
    /\ wire = <<>> /\ buf = <<>>
    /\ wire' = s
    /\ UNCHANGED <<clock, TRANSACTION_ID, tr, role, listener, unit_id, started, pc, call, rd, buf, inner, io, res>>

\* The caller's result once Tcp::read_pdu returned r.
TcpCallResult(c, r) ==
    CASE c.op = "write_req_read_rsp" -> ExchangeTail(c.req.fn, r)
      [] c.op = "write_setter_req" -> SetterTail(c.req, r)
      [] OTHER -> r

\* Tcp::read_pdu returns r (or panics); decoded is the buffer whose decoding
\* ended the loop (empty when a read ended it).  Bytes it has not read stay on
\* the connection.
TcpReadPduReturns(r, decoded, cause, dec) ==
    /\ inner' = [res |-> r, frame |-> decoded, cause |-> cause, dec |-> dec]
    /\ io' = LogRead(io)
    /\ buf' = <<>>
    /\ wire' = IF cause = "decode" THEN Tail(wire) ELSE <<>>
    /\ rd' = NoRd
    /\ pc' = IF r.kind = "Panic" THEN "panicked" ELSE "idle"
    /\ res' = TcpCallResult(call, r)
    /\ UNCHANGED <<clock, TRANSACTION_ID, tr, role, listener, unit_id, started, call>>

\* stream.read returns Ok(1): push the byte and decode what has arrived
TcpReadByte(checked) ==
    /\ tr = "tcp" /\ pc = "read"
    /\ wire # <<>>
    /\ LET frame_pdu == Append(buf, Head(wire))
           step == TcpReadPduStep(frame_pdu, rd.expected, checked)
       IN  IF step.kind = "Continue"
           THEN /\ buf' = frame_pdu
                /\ wire' = Tail(wire)
                /\ io' = LogRead(io)
                /\ UNCHANGED <<clock, TRANSACTION_ID, tr, role, listener, unit_id, started, pc, call,
                               rd, inner, res>>
           ELSE TcpReadPduReturns(step, frame_pdu, "decode",
                                  Outcome(TcpFrameDecode(frame_pdu, checked)))

\* stream.read returns Ok(0): the peer closed the connection
TcpReadEof ==
    /\ tr = "tcp" /\ pc = "read"
    /\ wire = <<>>
    /\ TcpReadPduReturns(Err("InvalidDataLength"), <<>>, "eof", "none")

\* stream.read returns an error (the read timeout, a reset)
TcpReadError ==
    /\ tr = "tcp" /\ pc = "read"
    /\ TcpReadPduReturns(Err("IoError"), <<>>, "io", "none")

Next ==
    \/ RtuStartMaster
    \/ \E u \in UnitIds : RtuStartSlave(u)
    \/ \E dst \in Dsts, pdu \in CallPdus, wok \in BOOLEAN : RtuWriteReqPdu(dst, pdu, wok)
    \/ \E src \in Dsts : RtuReadRspPdu(src)
    \/ RtuReadReqPdu
    \/ \E pdu \in CallPdus, wok \in BOOLEAN : RtuWriteRspPdu(pdu, wok)
    \/ \E response \in Rsps, wok \in BOOLEAN : RtuWriteRsp(response, wok)
    \/ \E dst \in Dsts, req \in Reqs, wok \in BOOLEAN :
            RtuExchange("write_req_read_rsp", dst, req, wok)
    \/ \E dst \in Dsts, req \in SetterReqs, wok \in BOOLEAN :
            RtuExchange("write_setter_req", dst, req, wok)
    \/ tr = "rtu" /\ pc = "read" /\ \E f \in RtuPeerFrames(call) : RtuPeerSends(f)
    \/ RtuReadByte
    \/ RtuReadTimeout
    \/ RtuReadIoError
    \/ TcpStartMaster
    \/ \E u \in UnitIds, bound \in BOOLEAN : TcpStartSlave(u, bound)
    \/ \E dst \in Dsts, pdu \in CallPdus, cok \in BOOLEAN, wok \in BOOLEAN :
            TcpWriteReqPdu(dst, pdu, cok, wok)
    \/ \E src \in Dsts : TcpReadRspPdu(src)
    \/ \E aok \in BOOLEAN : TcpReadReqPdu(aok)
    \/ \E pdu \in CallPdus, wok \in BOOLEAN : TcpWriteRspPdu(pdu, wok)
    \/ \E response \in Rsps, wok \in BOOLEAN : TcpWriteRsp(response, wok)
    \/ \E dst \in Dsts, req \in Reqs, cok \in BOOLEAN, wok \in BOOLEAN :
            TcpExchange("write_req_read_rsp", dst, req, cok, wok)
    \/ \E dst \in Dsts, req \in SetterReqs, cok \in BOOLEAN, wok \in BOOLEAN :
            TcpExchange("write_setter_req", dst, req, cok, wok)
    \/ tr = "tcp" /\ pc = "read" /\ \E s \in TcpPeerStreams(call) : TcpPeerSends(s)
    \/ \E checked \in BOOLEAN : TcpReadByte(checked)
    \/ TcpReadEof
    \/ TcpReadError

Spec == Init /\ [][Next]_vars

\* ------------------------------------------------ the codec, applied to inputs
\* buffers handed to the decoders: every buffer of at most two of these bytes,
\* and longer ones that decode
CodecBytes == {0, 1, 2, 3, 4, 5, 6, 7, 8, 9, 10, 11, 12, 129, 130, 132, 133, 134}
CodecBufs ==
    {<<>>} \cup {<<a>> : a \in CodecBytes} \cup {<<a, b>> : a \in CodecBytes, b \in CodecBytes}
    \cup {<<a, 1, b>> : a \in {1, 2, 129, 130}, b \in {0, 5}}
    \cup {<<4, 2, 0, 5>>, <<132, 2, 0, 5>>}
    \cup {<<a, 0, 1, b, 0>> : a \in {5, 6, 133, 134}, b \in {0, 1, 255}}

InitCodec ==
    /\ tr = "codec"
    /\ role = Master
    /\ listener = FALSE
    /\ unit_id = 255
    /\ started = "none"
    /\ pc = "idle"
    /\ \E fn \in Functions, d \in CodecBufs : call = Call("input", 0, Rq(fn, 0, 0, 0), d)
    /\ rd = NoRd
    /\ buf = <<>>
    /\ wire = <<>>
    /\ inner = NoInner
    /\ io = <<>>
    /\ res = NoResult
    /\ TRANSACTION_ID = 0
    /\ now = 0
    /\ last_baud_timestamp = 0

\* One application of a codec function to the input drawn in call: call.op
\* names the function applied, res holds what it returned.

\* Response::decode_response of function call.req.fn on the buffer call.pdu
ApplyDecodeResponse ==
    /\ tr = "codec"
    /\ call.op = "input"
    /\ call' = [call EXCEPT !.op = "decode_response"]
    /\ res' = DecodeResponse(call.req.fn, call.pdu)
    /\ UNCHANGED <<clock, TRANSACTION_ID, tr, role, listener, unit_id, started, pc, rd, buf, wire, inner, io>>

\* the end of Transport::write_req_read_rsp on the PDU read_rsp_pdu returned
ApplyExchangeTail ==
    /\ tr = "codec"
    /\ call.op = "input"
    /\ call' = [call EXCEPT !.op = "exchange_tail"]
    /\ res' = ExchangeTail(call.req.fn, Ok(call.pdu))
    /\ UNCHANGED <<clock, TRANSACTION_ID, tr, role, listener, unit_id, started, pc, rd, buf, wire, inner, io>>

NextCodec ==
    \/ ApplyDecodeResponse
    \/ ApplyExchangeTail

SpecCodec == InitCodec /\ [][NextCodec]_vars

\* ------------------------------------- the request decoders, applied to inputs
\* A specification over the variables of the sessions in which nothing but one
\* pure function is applied: kind names the family of functions, inputs the
\* set its input is drawn from (into call.pdu, with call.op = "input").
PureInit(kind, inputs) ==
    /\ tr = kind
    /\ role = Master
    /\ listener = FALSE
    /\ unit_id = 255
    /\ started = "none"
    /\ pc = "idle"
    /\ \E d \in inputs : call = Call("input", 0, NoReq, d)
    /\ rd = NoRd
    /\ buf = <<>>
    /\ wire = <<>>
    /\ inner = NoInner
    /\ io = <<>>
    /\ res = NoResult
    /\ TRANSACTION_ID = 0
    /\ now = 0
    /\ last_baud_timestamp = 0

\* The function named op was applied to the input: c is the call with what
\* was chosen besides the input, out is what the function returned.
Applied(kind, c, out) ==
    /\ tr = kind
    /\ call.op = "input"
    /\ call' = c
    /\ res' = out
    /\ UNCHANGED <<clock, TRANSACTION_ID, tr, role, listener, unit_id, started, pc, rd, buf, wire, inner, io>>

\* quantity fields of request PDUs: the ends of the ranges of the functions,
\* their neighbours, and values whose double does not fit 16 bits
ReqQuantities == {0, 1, 123, 124, 125, 126, 2000, 2001, 32768, 32769, 65535}
\* first bytes of request PDUs: the function codes, an unassigned code, and an
\* exception code
ReqCodes == {1, 2, 3, 4, 5, 6, 7, 16, 17, 129}
\* registers carried by the Write Multiple Registers requests of the inputs
MaxRegs == 2
\* Write Multiple Registers requests of q registers with byte count cnt and n
\* bytes of register data
WriteMultiRegBytes(c, q, cnt, n) ==
    <<c, 0, 0>> \o ToBe(q) \o <<cnt>> \o [i \in 1..n |-> i]

\* buffers handed to the request decoders
ReqBufs ==
    {<<>>} \cup {<<c>> : c \in ReqCodes} \cup {<<c, 0>> : c \in ReqCodes}
    \cup {<<c, 18, 52>> \o ToBe(q) : c \in ReqCodes, q \in ReqQuantities}
    \cup {<<5, 0, 1, 255, 0>>, <<6, 0, 1, 0, 2>>}
    \cup {WriteMultiRegBytes(c, q, 2 * q, n) :
            c \in {16, 17}, q \in 0..MaxRegs, n \in 0..(2 * MaxRegs + 1)}
    \cup {WriteMultiRegBytes(16, q, (2 * q) % 256, n) :
            q \in {123, 124, 32768, 32769}, n \in {0, 2}}
    \cup {WriteMultiRegBytes(16, 2, 5, 4), WriteMultiRegBytes(16, 2, 3, 4)}

InitReq == PureInit("reqcodec", ReqBufs)

\* write_multi_reg::Request::decode on the buffer call.pdu; call.dst records
\* the build (1: with overflow checks)
ApplyWriteMultiRegReqDecode(checked) ==
    Applied("reqcodec",
            [call EXCEPT !.op = "write_multi_reg_decode", !.dst = IF checked THEN 1 ELSE 0],
            WriteMultiRegReqDecode(call.pdu, checked))

\* decode_req on the PDU call.pdu
ApplyDecodeReq ==
    Applied("reqcodec", [call EXCEPT !.op = "decode_req"], DecodeReq(call.pdu))

\* Request::decode of a read request type on the buffer call.pdu
ApplyReadReqDecode(fn) ==
    Applied("reqcodec", [call EXCEPT !.op = "request_decode", !.req = Rq(fn, 0, 0, 0)],
            CASE fn = "ReadCoils" -> ReadCoilsReqDecode(call.pdu)
              [] fn = "ReadDscrIn" -> ReadDscrInReqDecode(call.pdu)
              [] fn = "ReadInReg" -> ReadInRegReqDecode(call.pdu))

NextReq ==
    \/ \E checked \in BOOLEAN : ApplyWriteMultiRegReqDecode(checked)
    \/ ApplyDecodeReq
    \/ \E fn \in {"ReadCoils", "ReadDscrIn", "ReadInReg"} : ApplyReadReqDecode(fn)

SpecReq == InitReq /\ [][NextReq]_vars

\* ------------------------------------------------ the encoders, applied to inputs
\* n registers, and a PDU of n bytes
FrameRegs(n) == [i \in 1..n |-> (i * 259) % U16]
FrameBytes(n) == [i \in 1..n |-> (i * 7) % 256]
\* addresses and quantities of the read requests: the ends of the ranges and
\* their neighbours, and the values of the encoders' tests
EncAddresses == {0, 4660, 57005, 65535}
EncQuantities == {0, 1, 124, 125, 126, 205, 1999, 2000, 2001, 65535}
\* n values of a bit-read response, and the vector of the encoders' test
EncBits(n) == [i \in 1..n |-> i % 3 = 1 \/ i = n]
TestBits ==
    <<TRUE, FALSE, TRUE, TRUE, FALSE, FALSE, TRUE, TRUE,
      TRUE, TRUE, FALSE, TRUE, FALSE, TRUE, TRUE, FALSE,
      TRUE, FALSE, TRUE>>
\* numbers of values of the bit-read responses: around a byte, and around the
\* byte counts MAX_SIZE - 3 and MAX_SIZE - 2
EncBitCounts == {0, 1, 7, 8, 9, 16, 17, 1999, 2000, 2001, 2008, 2009, 2016}
\* numbers of registers of the register responses and requests
EncRegCounts == {0, 1, 2, 4, 7, 123, 124, 125, 126, 127, 128, 129}
\* the registers of the encoders' tests
TestRegs == <<291, 9029, 43981, 60875, 0, 65535, 39030>>
TestValues == <<64222, 64206, 0, 1>>

\* the values handed to encode
EncInputs ==
    {[kind |-> "request", fn |-> fn, address |-> a, quantity |-> q, value |-> 0] :
        fn \in {"ReadCoils", "ReadDscrIn", "ReadInReg"}, a \in EncAddresses,
        q \in EncQuantities}
    \cup {[kind |-> "response", fn |-> fn, values |-> v] :
            fn \in {"ReadCoils", "ReadDscrIn"},
            v \in {EncBits(n) : n \in EncBitCounts} \cup {TestBits}}
    \cup {[kind |-> "response", fn |-> "ReadInReg", values |-> v] :
            v \in {FrameRegs(n) : n \in EncRegCounts} \cup {TestRegs}}
    \cup {[kind |-> "write_multi_reg", fn |-> "WriteMultiReg", address |-> a, values |-> v] :
            a \in EncAddresses,
            v \in {FrameRegs(n) : n \in EncRegCounts} \cup {TestValues}}

InitEnc ==
    /\ tr = "encoder"
    /\ role = Master
    /\ listener = FALSE
    /\ unit_id = 255
    /\ started = "none"
    /\ pc = "idle"
    /\ \/ \E x \in EncInputs : call = Call("input", 0, x, <<>>)
       \/ \E d \in ReqBufs :
            call = Call("buffer", 0, [kind |-> "buffer", fn |-> "WriteMultiReg"], d)
    /\ rd = NoRd
    /\ buf = <<>>
    /\ wire = <<>>
    /\ inner = NoInner
    /\ io = <<>>
    /\ res = NoResult
    /\ TRANSACTION_ID = 0
    /\ now = 0
    /\ last_baud_timestamp = 0

\* encode of the value call.req: res holds what it returned, call.pdu the PDU
ApplyEncode ==
    /\ tr = "encoder" /\ call.op = "input"
    /\ LET encoded == Encode(call.req)
       IN  /\ call' = [call EXCEPT !.op = "encode",
                                  !.pdu = IF IsOk(encoded) THEN encoded.val ELSE <<>>]
           /\ res' = encoded
    /\ UNCHANGED <<clock, TRANSACTION_ID, tr, role, listener, unit_id, started, pc, rd, buf, wire,
                   inner, io>>

\* decode of the PDU that encode produced; call.dst records the build (1: with
\* overflow checks)
ApplyDecodeOfEncoded(checked) ==
    /\ tr = "encoder" /\ call.op = "encode" /\ IsOk(res)
    /\ call' = [call EXCEPT !.op = "round_trip", !.dst = IF checked THEN 1 ELSE 0]
    /\ res' = Decode(call.req, call.pdu, checked)
    /\ UNCHANGED <<clock, TRANSACTION_ID, tr, role, listener, unit_id, started, pc, rd, buf, wire,
                   inner, io>>

\* write_multi_reg::Request::decode of the buffer call.pdu
ApplyDecodeOfBuffer(checked) ==
    /\ tr = "encoder" /\ call.op = "buffer"
    /\ call' = [call EXCEPT !.op = "decode", !.dst = IF checked THEN 1 ELSE 0]
    /\ res' = WriteMultiRegReqDecode(call.pdu, checked)
    /\ UNCHANGED <<clock, TRANSACTION_ID, tr, role, listener, unit_id, started, pc, rd, buf, wire,
                   inner, io>>

NextEnc ==
    \/ ApplyEncode
    \/ \E checked \in BOOLEAN : ApplyDecodeOfBuffer(checked)
    \/ \E checked \in BOOLEAN : ApplyDecodeOfEncoded(checked)

SpecEnc == InitEnc /\ [][NextEnc]_vars

\* ------------------------------------------------ the framers, applied to inputs
\* unit ids and addresses of the frames
FrameUnits == {0, 2, 255}
\* values of the static TRANSACTION_ID when a frame is built
FrameTransactionIds == {0, 1, 255, 5377, 65535}
\* PDUs handed to write_pdu: the empty PDU, the PDUs of the framers' tests, PDUs
\* at and above pdu::MAX_SIZE, and register responses of 125 and 126 registers
FramePdus ==
    {<<>>, <<7>>, <<3, 0, 4, 0, 1>>, FrameBytes(253), FrameBytes(254),
     ReadInRegRspEncode(FrameRegs(125)).val, ReadInRegRspEncode(FrameRegs(126)).val}
\* frame with the byte at i changed
FlipAt(frame, i) == [j \in 1..Len(frame) |-> IF j = i THEN BitXor(frame[j], 1, 8) ELSE frame[j]]
\* buffers handed to rtu::Frame::decode: short ones, the buffers of the
\* framer's tests, frames, and frames with one byte changed
FrameBufs ==
    {<<>>, <<2>>, <<2, 7>>, <<2, 7, 65>>, <<2, 7, 65, 18>>, <<2, 7, 65, 0>>,
     <<2, 7, 18, 65>>, <<1, 2, 3, 4>>, <<0, 0, 0, 0>>, <<255, 255, 255>>}
    \cup {RtuFrameEncode(u, p).val : u \in FrameUnits, p \in {<<7>>, <<3, 0, 4, 0, 1>>}}
    \cup {FlipAt(RtuFrameEncode(u, <<3, 0, 4, 0, 1>>).val, i) : u \in {2}, i \in 1..8}
    \cup {Append(RtuFrameEncode(2, <<7>>).val, 0)}

InitFrame ==
    /\ tr = "frame"
    /\ role = Master
    /\ listener = FALSE
    /\ unit_id = 255
    /\ started = "none"
    /\ pc = "idle"
    /\ \/ \E u \in FrameUnits, p \in FramePdus : call = Call("pdu", u, NoReq, p)
       \/ \E b \in FrameBufs : call = Call("buf", 0, NoReq, b)
    /\ rd = NoRd
    /\ buf = <<>>
    /\ wire = <<>>
    /\ inner = NoInner
    /\ io = <<>>
    /\ res = NoResult
    /\ TRANSACTION_ID \in FrameTransactionIds
    /\ now = 0
    /\ last_baud_timestamp = 0

\* Rtu::write_pdu of the PDU call.pdu to the unit call.dst on a port that takes
\* the frame: wire holds the bytes handed to serial.write_all
RtuWritePduFrame ==
    /\ tr = "frame" /\ call.op = "pdu"
    /\ call' = [call EXCEPT !.op = "rtu_write_pdu"]
    /\ LET encoded == RtuFrameEncode(call.dst, call.pdu)
       IN  IF IsOk(encoded)
           THEN wire' = encoded.val /\ io' = <<"tx">> /\ res' = Ok(<<>>)
           ELSE wire' = <<>> /\ io' = <<>> /\ res' = encoded
    /\ UNCHANGED <<clock, TRANSACTION_ID, tr, role, listener, unit_id, started, pc, rd, buf, inner>>

\* rtu::Frame::decode of the frame on the wire
RtuFrameReceived ==
    /\ tr = "frame" /\ call.op = "rtu_write_pdu" /\ io = <<"tx">>
    /\ call' = [call EXCEPT !.op = "rtu_round_trip"]
    /\ res' = RtuFrameDecode(wire)
    /\ UNCHANGED <<clock, TRANSACTION_ID, tr, role, listener, unit_id, started, pc, rd, buf, wire,
                   inner, io>>

\* rtu::Frame::decode of the buffer call.pdu
ApplyRtuFrameDecode ==
    /\ tr = "frame" /\ call.op = "buf"
    /\ call' = [call EXCEPT !.op = "rtu_decode"]
    /\ res' = RtuFrameDecode(call.pdu)
    /\ UNCHANGED <<clock, TRANSACTION_ID, tr, role, listener, unit_id, started, pc, rd, buf, wire,
                   inner, io>>

\* Tcp::write_pdu of the PDU call.pdu to the unit call.dst on a stream that
\* takes the frame: wire holds the bytes handed to stream.write_all, res the
\* Frame that Frame::new built
TcpWritePduFrame ==
    /\ tr = "frame" /\ call.op = "pdu"
    /\ call' = [call EXCEPT !.op = "tcp_write_pdu"]
    /\ TRANSACTION_ID' = GetTransactionId.next
    /\ LET frame == TcpFrameNew(call.dst, call.pdu)
           encoded == TcpFrameEncode(frame.transaction_id, frame.unit_id, frame.pdu)
       IN  /\ inner' = [NoInner EXCEPT !.res = Ok(frame)]
           /\ IF IsOk(encoded)
              THEN wire' = encoded.val /\ io' = <<"tx">> /\ res' = Ok(<<>>)
              ELSE wire' = <<>> /\ io' = <<>> /\ res' = encoded
    /\ UNCHANGED <<clock, tr, role, listener, unit_id, started, pc, rd, buf>>

\* tcp::Frame::decode of the frame on the wire
TcpFrameReceived(checked) ==
    /\ tr = "frame" /\ call.op = "tcp_write_pdu" /\ io = <<"tx">>
    /\ call' = [call EXCEPT !.op = "tcp_round_trip"]
    /\ res' = TcpFrameDecode(wire, checked)
    /\ UNCHANGED <<clock, TRANSACTION_ID, tr, role, listener, unit_id, started, pc, rd, buf, wire,
                   inner, io>>

NextFrame ==
    \/ RtuWritePduFrame
    \/ RtuFrameReceived
    \/ ApplyRtuFrameDecode
    \/ TcpWritePduFrame
    \/ \E checked \in BOOLEAN : TcpFrameReceived(checked)

SpecFrame == InitFrame /\ [][NextFrame]_vars

\* --------------------------------------- threads that build MBAP frames
\* the threads of the process
Threads == {1, 2}
\* A call of tcp Frame::new by a thread: nth counts the calls of all threads in
\* the order of their fetch_add.
FrameCall(op, thread, nth, unit, pdu) ==
    [op |-> op, dst |-> unit, req |-> NoReq, pdu |-> pdu, thread |-> thread, nth |-> nth]

InitTid ==
    /\ tr = "txid"
    /\ role = Master
    /\ listener = FALSE
    /\ unit_id = 255
    /\ started = "none"
    /\ pc = "idle"
    /\ call = FrameCall("none", 0, 0, 0, <<>>)
    /\ rd = NoRd
    /\ buf = <<>>
    /\ wire = <<>>
    /\ inner = NoInner
    /\ io = <<>>
    /\ res = NoResult
    /\ TRANSACTION_ID = 0
    /\ now = 0
    /\ last_baud_timestamp = 0

\* Thread th calls Frame::new: the fetch_add of get_transaction_id is the one
\* step in which threads meet.  res holds the Frame built, inner.res the first
\* Frame the process built.
ThreadFrameNew(th) ==
    /\ tr = "txid"
    /\ call.nth < U16 + MaxWrapped
    /\ call' = FrameCall("frame_new", th, call.nth + 1, 1, <<7>>)
    /\ TRANSACTION_ID' = GetTransactionId.next
    /\ res' = Ok(TcpFrameNew(1, <<7>>))
    /\ inner' = IF call.nth = 0 THEN [NoInner EXCEPT !.res = Ok(TcpFrameNew(1, <<7>>))]
                ELSE inner
    /\ UNCHANGED <<clock, tr, role, listener, unit_id, started, pc, rd, buf, wire, io>>

NextTid == \E th \in Threads : ThreadFrameNew(th)

SpecTid == InitTid /\ [][NextTid]_vars

\* ------------------------------------------- the RTU line against the clock
\* Time is counted in ticks of 25 ms; the clock of a session stops at MaxNow.
MaxNow == 12
\* min_delay of sleep_before_write: 100 ms
min_delay == 4
\* mutation of sleep_before_write: it never sleeps
SleepBeforeWriteNoSleep(at, timestamp) == 0
\* Rtu::sleep_before_write called at the instant `at`: the duration it sleeps
SleepBeforeWrite(at, timestamp) ==
    LET curr_delay == at - timestamp
    IN  IF curr_delay < min_delay THEN min_delay - curr_delay ELSE 0

\* the frame the peer sends during a read: unit 2, PDU 07
TimeFrame == RtuFrameEncode(2, <<7>>).val
\* A call of write_pdu or read_pdu; wake is the instant before which the sleep
\* of sleep_before_write does not return.
TimeCall(op, wake) ==
    [op |-> op, dst |-> 2, req |-> NoReq, pdu |-> <<7>>, wake |-> wake]

\* Rtu::conn has returned: the timestamp is the instant of the construction
InitTime ==
    /\ tr = "time"
    /\ role = Master
    /\ listener = FALSE
    /\ unit_id = 255
    /\ started = "none"
    /\ pc = "idle"
    /\ call = TimeCall("none", 0)
    /\ rd = NoRd
    /\ buf = <<>>
    /\ wire = <<>>
    /\ inner = NoInner
    /\ io = <<>>
    /\ res = NoResult
    /\ TRANSACTION_ID = 0
    /\ now = 0
    /\ last_baud_timestamp = now

\* Instant::now() is monotonic: the clock only advances, whatever the
\* transport is doing
TimePasses ==
    /\ tr = "time"
    /\ now < MaxNow
    /\ now' = now + 1
    /\ UNCHANGED <<last_baud_timestamp, TRANSACTION_ID, tr, role, listener, unit_id, started,
                   pc, call, rd, buf, wire, inner, io, res>>

\* Rtu::write_pdu is called and sleep_before_write reads the clock
TimeWritePduCalled ==
    /\ tr = "time" /\ pc = "idle"
    /\ pc' = "sleep"
    /\ call' = TimeCall("write_pdu", now + SleepBeforeWrite(now, last_baud_timestamp))
    /\ io' = <<>>
    /\ res' = NoResult
    /\ UNCHANGED <<clock, TRANSACTION_ID, tr, role, listener, unit_id, started, rd, buf, wire,
                   inner>>

\* sleep_before_write returns: thread::sleep lasts at least the duration asked
TimeSleepReturns ==
    /\ tr = "time" /\ pc = "sleep"
    /\ now >= call.wake
    /\ pc' = "write"
    /\ UNCHANGED <<clock, TRANSACTION_ID, tr, role, listener, unit_id, started, call, rd, buf,
                   wire, inner, io, res>>

\* serial.write_all of the encoded frame: the transmit begins; an error
\* returns from write_pdu
TimeWriteAll(ok) ==
    /\ tr = "time" /\ pc = "write"
    /\ io' = <<"tx">>
    /\ IF ok THEN pc' = "flush" /\ res' = res
             ELSE pc' = "idle" /\ res' = Err("IoError")
    /\ UNCHANGED <<clock, TRANSACTION_ID, tr, role, listener, unit_id, started, call, rd, buf,
                   wire, inner>>

\* serial.flush, then the timestamp is taken; an error returns before it is
TimeFlush(ok) ==
    /\ tr = "time" /\ pc = "flush"
    /\ pc' = "idle"
    /\ IF ok THEN last_baud_timestamp' = now /\ res' = Ok(<<>>)
             ELSE last_baud_timestamp' = last_baud_timestamp /\ res' = Err("IoError")
    /\ UNCHANGED <<now, TRANSACTION_ID, tr, role, listener, unit_id, started, call, rd, buf,
                   wire, inner, io>>

\* Rtu::read_pdu is called; the peer sends up to one frame during it
TimeReadPduCalled(infinitely, sent) ==
    /\ tr = "time" /\ pc = "idle"
    /\ pc' = "read"
    /\ call' = TimeCall("read_pdu", 0)
    /\ rd' = [expected |-> 2, infinitely |-> infinitely]
    /\ buf' = <<>>
    /\ wire' = SubSeq(TimeFrame, 1, sent)
    /\ io' = <<>>
    /\ res' = NoResult
    /\ UNCHANGED <<clock, TRANSACTION_ID, tr, role, listener, unit_id, started, inner>>

\* serial.read returns one byte: it is pushed and the timestamp is taken
TimeReadByte ==
    /\ tr = "time" /\ pc = "read"
    /\ wire # <<>>
    /\ buf' = Append(buf, Head(wire))
    /\ wire' = Tail(wire)
    /\ last_baud_timestamp' = now
    /\ io' = LogRead(io)
    /\ UNCHANGED <<now, TRANSACTION_ID, tr, role, listener, unit_id, started, pc, call, rd,
                   inner, res>>

\* serial.read returns Err(TimedOut)
TimeReadTimeout ==
    /\ tr = "time" /\ pc = "read"
    /\ io' = LogRead(io)
    /\ IF rd.infinitely /\ Len(buf) = 0
       THEN UNCHANGED <<pc, res, buf, wire>>
       ELSE /\ pc' = "idle"
            /\ res' = RtuReadPduResult(buf, rd.expected)
            /\ buf' = <<>>
            /\ wire' = <<>>
    /\ UNCHANGED <<clock, TRANSACTION_ID, tr, role, listener, unit_id, started, call, rd, inner>>

\* serial.read returns another error
TimeReadIoError ==
    /\ tr = "time" /\ pc = "read"
    /\ io' = LogRead(io)
    /\ pc' = "idle"
    /\ res' = Err("IoError")
    /\ buf' = <<>>
    /\ wire' = <<>>
    /\ UNCHANGED <<clock, TRANSACTION_ID, tr, role, listener, unit_id, started, call, rd, inner>>

NextTime ==
    \/ TimePasses
    \/ TimeWritePduCalled
    \/ TimeSleepReturns
    \/ \E ok \in BOOLEAN : TimeWriteAll(ok)
    \/ \E ok \in BOOLEAN : TimeFlush(ok)
    \/ \E infinitely \in BOOLEAN, sent \in 0..Len(TimeFrame) : TimeReadPduCalled(infinitely, sent)
    \/ TimeReadByte
    \/ TimeReadTimeout
    \/ TimeReadIoError

SpecTime == InitTime /\ [][NextTime]_vars

\* ------------------------------------------------------------------ claims
\* calls of the master side and of the slave side of a transport
MasterOps == {"write_req_pdu", "read_rsp_pdu", "write_req_read_rsp", "write_setter_req"}
SlaveOps == {"read_req_pdu", "write_rsp_pdu"}

\* C1: whatever bytes the TCP peer sends (a non-zero protocol id, a declared
\* length smaller than the bytes received, a declared length of 0xFFFA or
\* more), Tcp::read_pdu ends by returning a PDU or an Error and never panics.
C1_TcpReadPduNeverPanics ==
    tr = "tcp" => pc # "panicked" /\ inner.res.kind # "Panic" /\ res.kind # "Panic"

\* C2: on an RTU master call to a non-broadcast unit, a serial read that times
\* out before any byte arrived ends the call with Error::NoResponse.
C2_SilentUnitIsNoResponse ==
    ( /\ tr = "rtu"
      /\ call.op \in {"read_rsp_pdu", "write_req_read_rsp", "write_setter_req"}
      /\ call.dst # BROADCAST_DST
      /\ inner.cause = "timeout" /\ inner.frame = <<>> )
    => pc = "idle" /\ res = Err("NoResponse")

\* C3: after any sequence of start_master and start_slave calls, on both
\* transports, a slave call made while the role is Master or not yet set, and a
\* master call made while the role is Slave, fails with InvalidValue and
\* performs no I/O.
C3_WrongRoleCallIsRejected ==
    ( \/ call.op \in SlaveOps /\ started # "slave"
      \/ call.op \in MasterOps /\ started = "slave" )
    => pc = "idle" /\ res = Err("InvalidValue") /\ io = <<>>

\* C4: an RTU slave configured with unit id u returns from read_req_pdu only
\* the PDU of a frame whose CRC is valid and whose address byte is u; a valid
\* frame addressed to another unit, the broadcast address 0 included, is
\* dropped and the wait goes on.
C4_SlaveReturnsOnlyItsOwnFrames ==
    (tr = "rtu" /\ call.op = "read_req_pdu") =>
        LET f == inner.frame
            n == Len(f)
            valid == n >= 4 /\ Crc16(SubSeq(f, 1, n - 2)) = FromLe(f, n - 1)
        IN  /\ (pc = "idle" /\ IsOk(res)) =>
                /\ role.kind = "Slave" /\ role.id \in 1..247
                /\ inner.cause = "timeout"
                /\ valid
                /\ f[1] = role.id
                /\ res.val = SubSeq(f, 2, n - 2)
            /\ (inner.cause = "timeout" /\ valid /\ f[1] # role.id) =>
                pc = "read" /\ res = NoResult

\* C4 witness: a slave of unit 1 has dropped a CRC-valid broadcast frame and
\* waits for the next one.
C4_Witness ==
    /\ tr = "rtu" /\ call.op = "read_req_pdu" /\ pc = "read"
    /\ role = Slave(1)
    /\ inner.cause = "timeout"
    /\ inner.frame = RtuFrameEncode(0, <<1, 1, 1>>).val
    /\ inner.res = Err("InvalidData")

\* C5: the only errors an RTU slave's read_req_pdu recovers from are frames of
\* another unit; a CRC mismatch, a too short frame or a serial error other than
\* a timeout ends read_req_pdu with that error.
C5_SlaveSurfacesFrameErrors ==
    ( /\ tr = "rtu" /\ call.op = "read_req_pdu"
      /\ inner.cause # "none"
      /\ inner.res.kind = "Err"
      /\ ~(inner.cause = "timeout" /\ inner.dec = "Ok") )
    => pc = "idle" /\ res = inner.res

\* C6: write_req_read_rsp to the broadcast unit 0, on RTU and on TCP, transmits
\* exactly one frame, performs no read and returns Ok(None); to any other unit
\* it reads a response after transmitting and never returns Ok(None).
C6_BroadcastSendsOnceWithoutRead ==
    call.op = "write_req_read_rsp" =>
        LET txs == {i \in DOMAIN io : io[i] = "tx"}
            reads == {i \in DOMAIN io : io[i] = "read"}
            none == IsOk(res) /\ ~res.val.some
        IN  IF call.dst = 0
            THEN /\ pc = "idle"
                 /\ reads = {}
                 /\ Cardinality(txs) <= 1
                 /\ none <=> Cardinality(txs) = 1
            ELSE /\ ~none
                 /\ Cardinality(txs) <= 1
                 /\ \A r \in reads : \E t \in txs : t < r
                 /\ (pc = "idle" /\ txs # {}) => reads # {}

\* C6 witness: a broadcast exchange on RTU has sent its frame and returned
\* Ok(None).
C6_Witness ==
    /\ tr = "rtu" /\ call.op = "write_req_read_rsp" /\ call.dst = 0
    /\ pc = "idle" /\ io = <<"tx">>
    /\ res = Ok(OptNone)

\* C7: write_setter_req to a non-broadcast unit returns Ok(()) exactly when the
\* response decodes to the request itself; a well-formed response of the same
\* function with another address or value is InvalidData.
C7_SetterOkIffEcho ==
    ( /\ call.op = "write_setter_req" /\ call.req.fn = "WriteSingleReg"
      /\ call.dst # 0 /\ pc = "idle" ) =>
        LET r == inner.res
            same_fn == IsOk(r) /\ Len(r.val) = 5 /\ r.val[1] = 6
            echo == /\ same_fn
                    /\ FromBe(r.val, 2) = call.req.address
                    /\ FromBe(r.val, 4) = call.req.value
        IN  /\ IsOk(res) <=> echo
            /\ IsOk(res) => res = Ok(<<>>)
            /\ (same_fn /\ ~echo) => res = Err("InvalidData")

\* C7 witness: the unit answered a write of 2 to register 1 with an echo that
\* carries the value 3, and the call returned InvalidData.
C7_Witness ==
    /\ call.op = "write_setter_req" /\ call.dst = 1 /\ pc = "idle"
    /\ call.req = Rq("WriteSingleReg", 1, 0, 2)
    /\ inner.res = Ok(<<6, 0, 1, 0, 3>>)
    /\ res = Err("InvalidData")

\* C8: for a response type with function code c, decode_response(d) is
\* Err(ExceptionResponse(x)) exactly when d has 2 bytes, d[0] = c | 0x80 and
\* d[1] = x is one of the codes 1..6, 8, 0x0A, 0x0B; otherwise it is the result
\* of the normal decode(d).  write_req_read_rsp never returns Ok(Some(..)) for
\* such an exception PDU.
C8_ExceptionResponseExactly ==
    (tr = "codec" /\ call.op # "input") =>
        LET fn == call.req.fn
            d == call.pdu
            is_exc == /\ Len(d) = 2
                      /\ d[1] = FunctionCode(fn) + 128
                      /\ d[2] \in {1, 2, 3, 4, 5, 6, 8, 10, 11}
            exc_err == /\ res.kind = "Err" /\ res.err = "ExceptionResponse"
                       /\ res.val = <<d[2]>>
        IN  /\ call.op = "decode_response" =>
                IF is_exc THEN exc_err
                ELSE res.err # "ExceptionResponse" /\ res = RspDecode(fn, d)
            /\ call.op = "exchange_tail" => (is_exc => exc_err)

\* C8 witness: the ReadInReg response decoder was given the exception PDU
\* 84 0B and returned ExceptionResponse(0x0B).
C8_Witness ==
    /\ tr = "codec" /\ call.op = "decode_response"
    /\ call.req.fn = "ReadInReg" /\ call.pdu = <<132, 11>>
    /\ res = ExcErr(11)

\* C9: whenever a transport, RTU or TCP, is in slave role its unit id is in
\* 1..=247; start_slave(0) and start_slave(248..=255) fail with InvalidValue.
C9_SlaveUnitIdInRange ==
    /\ started = "slave" =>
            IF tr = "rtu" THEN role.kind = "Slave" /\ role.id \in 1..247
            ELSE unit_id \in 1..247
    /\ (call.op = "start_slave" /\ call.dst \notin 1..247) => res = Err("InvalidValue")

\* C10: over a growing buffer b, the TCP Frame::decode returns
\* TooShortData while b holds fewer bytes than its header declares, the frame
\* when b holds exactly 6 + declared length bytes, InvalidData when the protocol
\* id is not 0 and InvalidDataLength when b is longer.
C10_DecodeFollowsDeclaredLength ==
    tr = "tcp" =>
        LET Claimed(b) ==
                IF FromBe(b, 3) # 0 THEN "InvalidData"
                ELSE IF Len(b) < 6 + FromBe(b, 5) THEN "TooShortData"
                ELSE IF Len(b) = 6 + FromBe(b, 5) THEN "Ok"
                ELSE "InvalidDataLength"
        IN  /\ (pc = "read" /\ Len(buf) >= 6) => Claimed(buf) = "TooShortData"
            /\ inner.cause = "decode" => inner.dec = Claimed(inner.frame)

\* C10, the part that holds: of a well-formed frame (protocol id 0, at least
\* one PDU byte, declared length = 1 + PDU length) fed one byte at a time, no
\* proper prefix ends the decode loop, the full frame decodes, and read_pdu
\* returns its PDU after consuming exactly the frame's bytes.
C10_WellFormedFrameIsReadWhole ==
    tr = "tcp" =>
        LET WellFormed(b) ==
                Len(b) >= 8 /\ FromBe(b, 3) = 0 /\ Len(b) = 6 + FromBe(b, 5)
        IN  /\ (pc = "read" /\ WellFormed(buf \o wire)) => wire # <<>>
            /\ (inner.cause = "decode" /\ WellFormed(inner.frame \o wire)) =>
                    /\ wire = <<>>
                    /\ inner.dec = "Ok"
                    /\ inner.res \in {Ok(SubSeq(inner.frame, 8, Len(inner.frame))),
                                      Err("InvalidData")}
            /\ (inner.cause = "decode" /\ IsOk(inner.res)) =>
                    /\ WellFormed(inner.frame)
                    /\ inner.res.val = SubSeq(inner.frame, 8, Len(inner.frame))

\* C11: write_multi_reg::Request::decode of any buffer returns Ok or one of
\* InvalidDataLength / InvalidData / InvalidValue, never a panic: a buffer
\* shorter than 6 + byte_count bytes and a buffer whose quantity field is
\* 0x8000 or more are rejected with an error.
C11_WriteMultiRegDecodeNeverPanics ==
    (tr = "reqcodec" /\ call.op = "write_multi_reg_decode") =>
        LET d == call.pdu
        IN  /\ res.kind \in {"Ok", "Err"}
            /\ res.kind = "Err" =>
                    res.err \in {"InvalidDataLength", "InvalidData", "InvalidValue"}
            /\ (Len(d) >= 6 /\ (Len(d) < 6 + d[6] \/ FromBe(d, 4) >= 32768)) =>
                    res.kind = "Err"

\* C12 as stated: a master that issued a request of function code c gets
\* Ok(Some(response)) from write_req_read_rsp only when the first byte of the
\* received PDU is c; a well-formed response PDU of another function is
\* rejected with InvalidData.
C12_OtherFunctionIsInvalidData ==
    (tr = "codec" /\ call.op = "exchange_tail") =>
        LET fn == call.req.fn
            d == call.pdu
            other == \E g \in Functions \ {fn} : IsOk(RspDecode(g, d))
        IN  /\ IsOk(res) => (Len(d) >= 1 /\ d[1] = FunctionCode(fn))
            /\ other => (res.kind = "Err" /\ res.err = "InvalidData")

\* C12 amended: Ok(Some(response)) is returned only when the first byte of the
\* received PDU is c, and the response is of the issued function.  A
\* well-formed response PDU of another function is never decoded: it is
\* rejected with InvalidDataLength when its length is one the decoder of the
\* issued function refuses before it looks at the function code (fewer than 3
\* bytes for Read Coils, other than 5 bytes for Write Single Coil and Write
\* Single Register), and with InvalidData otherwise.
C12_OtherFunctionIsRejected ==
    (tr = "codec" /\ call.op = "exchange_tail") =>
        LET fn == call.req.fn
            d == call.pdu
            other == \E g \in Functions \ {fn} : IsOk(RspDecode(g, d))
            refused_length ==
                CASE fn = "ReadCoils" -> Len(d) < 3
                  [] fn \in {"WriteSingleCoil", "WriteSingleReg"} -> Len(d) # 5
                  [] OTHER -> Len(d) < 2
        IN  /\ IsOk(res) =>
                /\ Len(d) >= 1 /\ d[1] = FunctionCode(fn)
                /\ res.val.some /\ res.val.v.fn = fn
            /\ other =>
                /\ res.kind = "Err"
                /\ res.err = IF refused_length THEN "InvalidDataLength" ELSE "InvalidData"

\* C12 witness: a Write Single Register request was answered with the
\* well-formed Read Coils response 01 01 00, and the exchange ended with
\* InvalidDataLength.
C12_Witness ==
    /\ tr = "codec" /\ call.op = "exchange_tail"
    /\ call.req.fn = "WriteSingleReg" /\ call.pdu = <<1, 1, 0>>
    /\ res = Err("InvalidDataLength")

\* C13: decode_req of a PDU whose first byte is the code of a supported
\* function (0x01..0x06, 0x10) returns the RequestData variant of that function
\* holding the result of that function's request decoder, or that decoder's
\* error; for every other first byte it returns InvalidData.
C13_DispatcherSelectsTheDecoder ==
    (tr = "reqcodec" /\ call.op = "decode_req" /\ Len(call.pdu) >= 1) =>
        LET d == call.pdu
        IN  CASE d[1] = 1 -> res = Wrapped("ReadCoils", ReadCoilsReqDecode(d))
              [] d[1] = 2 -> res = Wrapped("ReadDscrIn", ReadDscrInReqDecode(d))
              [] d[1] = 3 -> res = Wrapped("ReadHldReg", ReadHldRegReqDecode(d))
              [] d[1] = 4 -> res = Wrapped("ReadInReg", ReadInRegReqDecode(d))
              [] d[1] = 5 -> res = Wrapped("WriteSingleCoil", WriteSingleCoilDecode(d))
              [] d[1] = 6 -> res = Wrapped("WriteSingleReg", WriteSingleRegDecode(d))
              [] d[1] = 16 ->
                    \/ res = Wrapped("WriteMultiReg", WriteMultiRegReqDecode(d, TRUE))
                    \/ res = Wrapped("WriteMultiReg", WriteMultiRegReqDecode(d, FALSE))
              [] OTHER -> res = Err("InvalidData")

\* C14: the quantity bounds hold on decode: a Read Coils or Read Discrete
\* Inputs request decoder never returns a request whose quantity is 0 or above
\* 2000, a Read Input Registers request decoder never one whose quantity is 0
\* or above 125.
C14_DecodedQuantityInRange ==
    (tr = "reqcodec" /\ call.op = "request_decode" /\ IsOk(res)) =>
        res.val.quantity \in 1..(IF call.req.fn = "ReadInReg" THEN 125 ELSE 2000)

\* C15: every RTU frame that write_pdu hands to the serial port carries a PDU
\* of 1..=253 bytes and is 4..=256 bytes long; a PDU outside the range is never
\* framed and transmitted.
C15_RtuFrameWithinSize ==
    (tr = "frame" /\ call.op = "rtu_write_pdu" /\ io = <<"tx">>) =>
        /\ Len(call.pdu) \in 1..253
        /\ Len(wire) \in 4..256

\* C16: for every unit id u and PDU p of 1..=253 bytes the frame that
\* rtu::Frame::encode produces is u, then p, then the CRC16 of u and p with its
\* low byte first, and rtu::Frame::decode of that frame yields (u, p).
C16_RtuRoundTrip ==
    (tr = "frame" /\ call.op \in {"rtu_write_pdu", "rtu_round_trip"}
     /\ Len(call.pdu) \in 1..253) =>
        LET u == call.dst
            p == call.pdu
            crc == Crc16(<<u>> \o p)
        IN  /\ wire = <<u>> \o p \o <<crc % 256, crc \div 256>>
            /\ (u = 2 /\ p = <<7>>) => wire = <<2, 7, 65, 18>>
            /\ call.op = "rtu_round_trip" =>
                    /\ IsOk(res)
                    /\ res.val.address = u
                    /\ res.val.pdu = p

\* C16 witness: a PDU of 253 bytes went through encode and decode and came
\* back whole.
C16_Witness ==
    /\ tr = "frame" /\ call.op = "rtu_round_trip"
    /\ Len(call.pdu) = 253 /\ Len(wire) = 256
    /\ IsOk(res) /\ res.val.pdu = call.pdu /\ res.val.address = call.dst

\* C17: rtu::Frame::decode returns InvalidDataLength for a buffer of fewer than
\* 4 bytes, InvalidData for a buffer of 4 bytes or more whose last two bytes
\* are not the CRC16 (low byte first) of the bytes before them, and a frame
\* only when the CRC matches.
C17_RtuDecodeErrors ==
    (tr = "frame" /\ call.op = "rtu_decode") =>
        LET d == call.pdu
            len == Len(d)
            matches == Crc16(SubSeq(d, 1, len - 2)) = d[len - 1] + 256 * d[len]
        IN  /\ len < 4 => (res.kind = "Err" /\ res.err = "InvalidDataLength")
            /\ (len >= 4 /\ ~matches) => (res.kind = "Err" /\ res.err = "InvalidData")
            /\ IsOk(res) =>
                    /\ len >= 4 /\ matches
                    /\ res.val.address = d[1]
                    /\ res.val.pdu = SubSeq(d, 2, len - 2)
            /\ d = <<2, 7, 65, 18>> => IsOk(res)
            /\ d = <<2, 7, 65, 0>> => (res.kind = "Err" /\ res.err = "InvalidData")

\* C17 witness: the buffer 02 07 41 00, whose CRC is wrong, was decoded and
\* refused with InvalidData.
C17_Witness ==
    /\ tr = "frame" /\ call.op = "rtu_decode"
    /\ call.pdu = <<2, 7, 65, 0>>
    /\ res = Err("InvalidData")

\* C18: for every transaction id t, unit id u and PDU p of 1..=253 bytes,
\* tcp::Frame::decode of the MBAP encoding of the frame (t, u, p) yields
\* (t, u, p).
C18_TcpRoundTrip ==
    (tr = "frame" /\ call.op = "tcp_round_trip" /\ Len(call.pdu) \in 1..253) =>
        /\ IsOk(res)
        /\ res.val.transaction_id = inner.res.val.transaction_id
        /\ res.val.unit_id = call.dst
        /\ res.val.pdu = call.pdu

\* C18 witness: the frame (0xFFFF, 2, p) with p of 253 bytes went through
\* encode and decode and came back whole.
C18_Witness ==
    /\ tr = "frame" /\ call.op = "tcp_round_trip"
    /\ Len(call.pdu) = 253 /\ call.dst = 2
    /\ inner.res.val.transaction_id = 65535
    /\ IsOk(res) /\ res.val = inner.res.val

C20_TransactionIdIsFrameOrdinal ==
    (tr = "txid" /\ call.op = "frame_new") =>
        /\ res.val.transaction_id = (call.nth - 1) % U16
        /\ TRANSACTION_ID = call.nth % U16
        /\ TRANSACTION_ID \in 0..(U16 - 1)
        /\ res.val.transaction_id = inner.res.val.transaction_id =>
                (call.nth - 1) % U16 = 0

\* C20 witness: the counter has wrapped: the frame after the one with id
\* 0xFFFF was built, by the second thread, and carries the id 0.
C20_Witness ==
    /\ tr = "txid" /\ call.op = "frame_new"
    /\ call.nth = U16 + 1 /\ call.thread = 2
    /\ res.val.transaction_id = 0
    /\ TRANSACTION_ID = 1

\* the bytes data with the transaction id field (the first two bytes) set to t
WithTransactionId(data, t) ==
    [i \in 1..Len(data) |->
        IF i = 1 THEN t \div 256 ELSE IF i = 2 THEN t % 256 ELSE data[i]]
\* transaction ids a peer may put in a frame
OtherTransactionIds == {0, 1, 5377, 65535}
\* the unit id read_pdu of the call expects
ExpectedUnit == IF call.op = "read_req_pdu" THEN unit_id ELSE call.dst

\* C21: Tcp::read_pdu neither validates nor correlates on the transaction id:
\* at every turn of its loop, and at its return, the same bytes with any other
\* transaction id give the same outcome (go on reading, the same PDU, the same
\* error), so two streams that differ only in the transaction id bytes are read
\* alike and a response with another id than the request's is accepted.
C21_TransactionIdIsIgnored ==
    /\ (tr = "tcp" /\ pc = "read" /\ wire # <<>>) =>
            LET frame_pdu == Append(buf, Head(wire))
            IN  \A t \in OtherTransactionIds, checked \in BOOLEAN :
                    TcpReadPduStep(WithTransactionId(frame_pdu, t), rd.expected, checked)
                        = TcpReadPduStep(frame_pdu, rd.expected, checked)
    /\ (tr = "tcp" /\ pc # "read" /\ inner.cause = "decode") =>
            \A t \in OtherTransactionIds :
                \E checked \in BOOLEAN :
                    TcpReadPduStep(WithTransactionId(inner.frame, t), ExpectedUnit, checked)
                        = inner.res

\* C21 witness: a Read Coils exchange whose request went out with transaction
\* id 0 read a response frame with transaction id 0x1501 and returned its
\* response.
C21_Witness ==
    /\ tr = "tcp" /\ pc = "idle" /\ call.op = "write_req_read_rsp"
    /\ inner.cause = "decode"
    /\ Len(inner.frame) >= 8 /\ FromBe(inner.frame, 1) = 5377
    /\ TRANSACTION_ID = 1
    /\ IsOk(res) /\ res.val.some

\* the big-endian bytes of the 16-bit values regs
BeBytes(regs) ==
    [i \in 1..(2 * Len(regs)) |->
        IF i % 2 = 1 THEN regs[(i + 1) \div 2] \div 256 ELSE regs[i \div 2] % 256]

\* C22: a Read Coils, Read Discrete Inputs or Read Input Registers request
\* fails to encode, with InvalidValue, exactly when its quantity is 0 or above
\* the maximum of the function (2000, 2000, 125); otherwise it encodes to
\* function code, address and quantity big-endian, and decode of that PDU
\* gives the request back.
C22_ReadRequestRoundTrip ==
    (tr = "encoder" /\ call.req.kind = "request") =>
        LET x == call.req
            max == IF x.fn = "ReadInReg" THEN 125 ELSE 2000
            bad == x.quantity = 0 \/ x.quantity > max
        IN  /\ call.op = "encode" =>
                /\ bad <=> (res.kind = "Err" /\ res.err = "InvalidValue")
                /\ ~bad => IsOk(res)
            /\ (call.op \in {"encode", "round_trip"} /\ ~bad) =>
                /\ call.pdu = <<FunctionCode(x.fn), x.address \div 256, x.address % 256,
                                x.quantity \div 256, x.quantity % 256>>
                /\ (x.fn = "ReadCoils" /\ x.address = 4660 /\ x.quantity = 205) =>
                        call.pdu = <<1, 18, 52, 0, 205>>
            /\ call.op = "round_trip" =>
                /\ IsOk(res)
                /\ res.val.fn = x.fn
                /\ res.val.address = x.address
                /\ res.val.quantity = x.quantity

\* C22 witness: the Read Input Registers request of 125 registers at address
\* 0xFFFF was encoded and decoded back.
C22_Witness ==
    /\ tr = "encoder" /\ call.op = "round_trip"
    /\ call.req.kind = "request" /\ call.req.fn = "ReadInReg"
    /\ call.req.quantity = 125 /\ call.req.address = 65535
    /\ call.pdu = <<4, 255, 255, 0, 125>>
    /\ IsOk(res) /\ res.val.quantity = 125 /\ res.val.address = 65535

\* the values a bit-read response decoder returned
DecodedBits(r) == IF r.val.fn = "ReadCoils" THEN r.val.coils ELSE r.val.inputs

\* C23: a Read Coils or Read Discrete Inputs response of n values (1..2000)
\* encodes to function code, byte count ceil(n/8), and bytes in which value i
\* is bit (i mod 8) of byte floor(i/8) and the unused bits of the last byte are
\* 0; decode of that PDU gives 8 * ceil(n/8) values, the first n the original
\* ones and the rest false.
C23_BitResponseRoundTrip ==
    (tr = "encoder" /\ call.req.kind = "response"
     /\ call.req.fn \in {"ReadCoils", "ReadDscrIn"}) =>
        LET v == call.req.values
            n == Len(v)
            count == (n + 7) \div 8
            d == call.pdu
        IN  /\ (call.op = "encode" /\ n \in 1..2000) => IsOk(res)
            /\ (call.op \in {"encode", "round_trip"} /\ d # <<>>) =>
                /\ Len(d) = 2 + count
                /\ d[1] = FunctionCode(call.req.fn)
                /\ d[2] = count
                /\ \A i \in 0..(8 * count - 1) :
                        BitSet(d[3 + (i \div 8)], i % 8) = (i < n /\ v[i + 1])
                /\ v = TestBits => SubSeq(d, 2, 5) = <<3, 205, 107, 5>>
            /\ call.op = "round_trip" =>
                /\ IsOk(res)
                /\ Len(DecodedBits(res)) = 8 * count
                /\ \A i \in 1..(8 * count) : DecodedBits(res)[i] = (i <= n /\ v[i])

\* C23 witness: the 19 coils of the encoder's test were encoded to
\* 01 03 CD 6B 05 and decoded to 24 values.
C23_Witness ==
    /\ tr = "encoder" /\ call.op = "round_trip"
    /\ call.req.kind = "response" /\ call.req.fn = "ReadCoils"
    /\ call.req.values = TestBits
    /\ call.pdu = <<1, 3, 205, 107, 5>>
    /\ IsOk(res) /\ Len(res.val.coils) = 24
    /\ SubSeq(res.val.coils, 1, 19) = TestBits

\* C24: a Read Coils or Read Discrete Inputs response of n values fails to
\* encode, with InvalidValue, exactly when n = 0 or ceil(n/8) > MAX_SIZE - 2 =
\* 251; for the other n it encodes to a PDU of at most 253 bytes; the range is
\* the same for both functions.
C24_BitResponseRange ==
    (tr = "encoder" /\ call.op = "encode" /\ call.req.kind = "response"
     /\ call.req.fn \in {"ReadCoils", "ReadDscrIn"}) =>
        LET n == Len(call.req.values)
            count == (n + 7) \div 8
            bad == n = 0 \/ count > MAX_SIZE - 2
        IN  /\ bad => (res.kind = "Err" /\ res.err = "InvalidValue")
            /\ ~bad => (IsOk(res) /\ Len(res.val) <= MAX_SIZE)

\* C25: a Read Input Registers response of n registers encodes, for n in
\* 1..=125, to 2 + 2n bytes: function code, byte count 2n, the registers
\* big-endian; it fails with InvalidValue for n = 0 and n > 125; the byte count
\* is never truncated and the PDU never exceeds 253 bytes.
C25_RegisterResponseRange ==
    (tr = "encoder" /\ call.op = "encode" /\ call.req.kind = "response"
     /\ call.req.fn = "ReadInReg") =>
        LET v == call.req.values
            n == Len(v)
        IN  /\ n \in 1..125 =>
                /\ IsOk(res)
                /\ res.val = <<4, 2 * n>> \o BeBytes(v)
            /\ n \notin 1..125 => (res.kind = "Err" /\ res.err = "InvalidValue")
            /\ IsOk(res) => (Len(res.val) <= MAX_SIZE /\ res.val[2] = 2 * n)

\* what C26 says of encode and of the round trip
C26_EncodeAndRoundTrip ==
    (tr = "encoder" /\ call.req.kind = "write_multi_reg") =>
        LET x == call.req
            n == Len(x.values)
        IN  /\ (call.op = "encode" /\ n \notin 1..123) =>
                    (res.kind = "Err" /\ res.err = "InvalidValue")
            /\ (call.op \in {"encode", "round_trip"} /\ n \in 1..123) =>
                /\ call.pdu = <<16, x.address \div 256, x.address % 256, n \div 256,
                                n % 256, 2 * n>> \o BeBytes(x.values)
                /\ x.values = TestValues /\ x.address = 57005 =>
                        call.pdu = <<16, 222, 173, 0, 4, 8, 250, 222, 250, 206, 0, 0, 0, 1>>
            /\ call.op = "encode" /\ n \in 1..123 => IsOk(res)
            /\ call.op = "round_trip" =>
                /\ IsOk(res)
                /\ res.val.address = x.address
                /\ res.val.values = x.values

\* what C26 says of a decode that returns a request
C26_DecodedOnlyWhen ==
    (tr = "encoder" /\ call.op = "decode" /\ IsOk(res)) =>
        LET d == call.pdu
        IN  /\ d[1] = 16
            /\ FromBe(d, 4) \in 1..123
            /\ d[6] = 2 * FromBe(d, 4)
            /\ res.val.address = FromBe(d, 2)
            /\ Len(res.val.values) = FromBe(d, 4)

\* C26 as stated: encode fails with InvalidValue below 1 and above 123 values
\* and otherwise emits 0x10, address, quantity, byte count 2 * quantity and the
\* values big-endian; decode returns a request only when the first byte is
\* 0x10, the quantity is in 1..=123 and the byte count is 2 * quantity, and
\* returns InvalidData when the first byte is not 0x10; decode(encode(x)) = x.
C26_WriteMultiRegCodec ==
    /\ C26_EncodeAndRoundTrip
    /\ C26_DecodedOnlyWhen
    /\ (tr = "encoder" /\ call.op = "decode" /\ Len(call.pdu) >= 1 /\ call.pdu[1] # 16) =>
            (res.kind = "Err" /\ res.err = "InvalidData")

\* C26 amended: as stated, but a buffer whose first byte is not 0x10 gives
\* InvalidData only when it has at least 6 bytes; a buffer of fewer than 6
\* bytes gives InvalidDataLength whatever its first byte.
C26_WriteMultiRegCodecFrom6Bytes ==
    /\ C26_EncodeAndRoundTrip
    /\ C26_DecodedOnlyWhen
    /\ (tr = "encoder" /\ call.op = "decode") =>
            /\ (Len(call.pdu) >= 6 /\ call.pdu[1] # 16) =>
                    (res.kind = "Err" /\ res.err = "InvalidData")
            /\ Len(call.pdu) < 6 => (res.kind = "Err" /\ res.err = "InvalidDataLength")

\* C26 witness: the one-byte buffer 11, whose first byte is not 0x10, was
\* decoded and refused with InvalidDataLength.
C26_Witness ==
    /\ tr = "encoder" /\ call.op = "decode"
    /\ call.pdu = <<17>>
    /\ res = Err("InvalidDataLength")

\* a step of an Rtu::read_pdu: the accumulator grows by the one byte read; a
\* read that ends with bytes accumulated and without an I/O error has decoded
\* exactly those bytes; with `infinitely` and an empty accumulator nothing ends
\* the read
C27_ReadStep ==
    (tr = "rtu" /\ pc = "read") =>
        /\ \/ buf' = buf
           \/ buf' = <<>>
           \/ wire # <<>> /\ buf' = Append(buf, Head(wire)) /\ wire' = Tail(wire)
        /\ (buf # <<>> /\ buf' = <<>>) =>
            \/ inner'.cause = "io"
            \/ /\ inner'.cause = "timeout"
               /\ inner'.frame = buf
               /\ inner'.res = RtuReadPduResult(buf, rd.expected)
        /\ (rd.infinitely /\ buf = <<>>) =>
            /\ pc' = "read"
            /\ inner' = inner \/ inner'.cause # "timeout"

\* a read_req_pdu that has returned a request has decoded a frame that a
\* timeout ended, and no timeout has ever ended its read on an empty
\* accumulator
C27_ReturnedAfterBytes ==
    (tr = "rtu" /\ call.op = "read_req_pdu") =>
        /\ inner.cause = "timeout" => inner.frame # <<>>
        /\ (pc = "idle" /\ IsOk(res)) =>
            /\ inner.cause = "timeout"
            /\ Len(inner.frame) >= 1
            /\ res = RtuReadPduResult(inner.frame, role.id)

\* C27: Rtu::read_pdu reads one byte at a time and, at the first read timeout
\* with at least one byte accumulated, stops and decodes exactly the bytes
\* accumulated; in the slave's idle listening a timeout with an empty
\* accumulator never ends the read, so the call returns only after at least
\* one byte has arrived.
C27_TimeoutEndsTheFrame == []C27_ReturnedAfterBytes /\ [][C27_ReadStep]_vars

\* C27 witness: a slave's read_req_pdu returned the PDU of a frame that a
\* timeout ended.
C27_Witness ==
    /\ tr = "rtu" /\ call.op = "read_req_pdu" /\ pc = "idle"
    /\ IsOk(res)
    /\ inner.cause = "timeout" /\ Len(inner.frame) >= 4
    /\ io = <<"read">>

\* a step of the RTU transport against the clock
C28_Step ==
    tr = "time" =>
        \* the transmit begins
        /\ (pc = "write" /\ pc' # "write") => now >= last_baud_timestamp + min_delay
        \* a byte is received
        /\ Len(buf') > Len(buf) => last_baud_timestamp' = now'
        \* a transmit completes
        /\ (pc = "flush" /\ IsOk(res')) => last_baud_timestamp' = now'
        /\ last_baud_timestamp' >= last_baud_timestamp
        /\ now' >= now

\* C28: on an RTU transport every transmit begins no earlier than the minimum
\* inter-frame gap (100 ms) after the last-activity timestamp; the timestamp is
\* set on every received byte and after every completed transmit, and never
\* moves backwards across any sequence of reads and writes.
C28_InterFrameGap == [](last_baud_timestamp <= now) /\ [][C28_Step]_vars

\* C28 witness: a transmit has begun after a sleep that was needed, following
\* a received byte that had moved the timestamp.
C28_Witness ==
    /\ tr = "time" /\ call.op = "write_pdu" /\ pc = "flush"
    /\ last_baud_timestamp > 0
    /\ call.wake = last_baud_timestamp + min_delay
    /\ now = call.wake

\* the calls of the Transport trait that encode their argument first
EncodingOps == {"write_req_read_rsp", "write_setter_req", "write_rsp"}
\* Function::encode of the argument of such a call
EncodedArgument(c) == IF c.op = "write_rsp" THEN Encode(c.req) ELSE ReqEncode(c.req)

\* C29: if encoding fails, write_req_read_rsp, write_setter_req and write_rsp
\* return that error before any transport action: no connection is opened, no
\* byte is written to the line or socket, and no read is attempted.
C29_EncodeErrorBeforeTransport ==
    (tr \in {"rtu", "tcp"} /\ call.op \in EncodingOps /\ ~IsOk(EncodedArgument(call))) =>
        /\ pc = "idle"
        /\ res = EncodedArgument(call)
        /\ io = <<>>
        /\ inner = NoInner

\* C29 witness: an RTU slave's write_rsp of a response with no coils returned
\* InvalidValue and the line was not touched.
C29_Witness ==
    /\ tr = "rtu" /\ role.kind = "Slave"
    /\ call.op = "write_rsp" /\ call.req.values = <<>>
    /\ res = Err("InvalidValue")
    /\ io = <<>>

\* a start_slave call that returns an error leaves role, unit_id and listener
\* as they were
C30_Step ==
    (pc = "idle" /\ call'.op = "start_slave" /\ ~IsOk(res')) =>
        /\ role' = role
        /\ unit_id' = unit_id
        /\ listener' = listener

\* C30: a start_slave call that returns an error leaves the transport's state
\* unchanged: on RTU the role stays what it was, and on TCP a failed bind
\* leaves both the stored unit id and the listener as they were.
C30_FailedStartSlaveKeepsState == [][C30_Step]_vars
====
